---- MODULE Spec2Model ----
(***************************************************************************)
(* A model of the collection orchestration of mono's SGen collector        *)
(* (mono/metadata/sgen-gc.c): the stop-the-world protocol, the write       *)
(* barrier entry points and the minor/major collection drivers.            *)
(*                                                                         *)
(* The module holds several specifications over one set of variables:      *)
(*   SpecSTW  the collection entry points and stop_world/restart_world     *)
(*   SpecWB   the mutator-facing write barriers                            *)
(*   SpecGC   pinning, copying and tracing in collect_nursery and          *)
(*            major_do_collection                                          *)
(*   SpecFin  finalization, disappearing links and ephemerons              *)
(*   SpecDrv  the collection drivers, degraded mode and the allowance      *)
(*            heuristic that decides when a major collection is due        *)
(* Each specification leaves the variables of the others parked.           *)
(***************************************************************************)
EXTENDS Integers, Naturals, Sequences, FiniteSets, TLC

(***************************************************************************)
(* Part 1.  Stop-the-world controller and collection entry points.         *)
(***************************************************************************)

\* Number of registered threads (SgenThreadInfo records); any may collect.
NThreads == 2

Threads == 1..NThreads

NoThread == 0

VARIABLES
    gc_lock,            \* LOCK_GC owner, NoThread when free
    interruption_lock,  \* LOCK_INTERRUPTION owner
    suspend_lock,       \* mono_thread_info_suspend_lock owner
    entry,              \* entry point being executed by the lock holder
    pc,                 \* control point inside the entry point
    info,               \* SgenThreadInfo fields, per thread
    tstate,             \* OS state of each thread: running / suspended / dead
    loc,                \* where each thread's instruction pointer really is
    restart_count,      \* locals of restart_threads_until_none_in_managed_allocator
    restarted_count,
    num_threads_died,
    count,              \* local of stop_world
    acks,               \* suspend_ack_semaphore value
    collector_attached, \* mono_thread_internal_current () != NULL for the collector
    disable_minor_collections,
    disable_major_collections,
    precise_marking,    \* gc_callbacks.thread_mark_func && !conservative_stack_mark
    minor_result,       \* value returned by the last collect_nursery
    need_minor_collection, \* local of major_collection
    world_stopped,      \* history: stop_world has returned, restart_world not yet begun
    n_stop,             \* history: stop_world calls made by the current entry point
    n_restart,          \* history: restart_world calls made by the current entry point
    phases,             \* history: collections run by the current entry point
    scanned_conservative, \* history: threads whose stack/registers were scanned conservatively
    scanned_precise,    \* history: threads whose stack was handed to thread_mark_func
    attempted,          \* history: threads the last restart-loop step tried to resume/suspend
    skipped_in_stop     \* history: threads marked skip by the restart loop of this stop_world

stwVars == <<gc_lock, interruption_lock, suspend_lock, entry, pc, info, tstate, loc,
             restart_count, restarted_count, num_threads_died, count, acks,
             collector_attached, disable_minor_collections, disable_major_collections,
             precise_marking, minor_result, need_minor_collection, world_stopped,
             n_stop, n_restart, phases, scanned_conservative, scanned_precise,
             attempted, skipped_in_stop>>

VARIABLES
    mem,        \* contents of the slots
    remset,     \* slot addresses handed to the remembered set
    wbarrier,   \* remembered-set implementation chosen at init: "remset" or "cardtable"
    wb          \* the barrier call in progress, with its arguments

wbVars == <<mem, remset, wbarrier, wb>>

VARIABLES
    heap,               \* the cells of the nursery, of the major heap and the root area
    cwords,             \* the words of the conservatively scanned areas
    global_remset,      \* cells whose reference slot is remembered
    to_space_left,      \* evacuations the major heap can still take
    pin_queue,          \* staged, then resolved pin queue
    gray_queue,         \* the gray stack
    objects_pinned,     \* objects pinned after a failed evacuation
    gpc,                \* phase of the collection in progress
    current_collection_generation,
    collections,        \* history: the generations of the collections started so far
    heap_before,        \* history: the heap when the collection started
    remset_before,      \* history: the remembered set when the collection started
    was_pinned,         \* history: objects pinned in this collection
    was_enqueued        \* history: objects put on the gray stack in this collection

gcVars == <<heap, cwords, global_remset, to_space_left, pin_queue, gray_queue,
            objects_pinned, gpc, current_collection_generation, collections,
            heap_before, remset_before, was_pinned, was_enqueued>>

VARIABLES
    fobj,                   \* the objects: allocated, generation, reference field
    froot,                  \* the registered root slot
    finalizable_hash,       \* objects registered for finalization
    fin_ready_list,         \* entries of the fin-ready lists, in finalization order
    num_ready_finalizers,
    dislinks,               \* the disappearing links: one non-tracking, one tracking
    ephemeron,              \* the ephemeron array: on ephemeron_list, rooted, its two pairs
    fin_log,                \* history: the collections run so far and what they queued
    ready_tracked,          \* history: objects queued while the tracking link revealed them
    ready_weak,             \* history: objects queued that the non-tracking link revealed
    ran,                    \* history: objects whose finalizer was invoked
    saw                     \* history: what the finalizers found when invoked

finVars == <<fobj, froot, finalizable_hash, fin_ready_list, num_ready_finalizers, dislinks,
             ephemeron, fin_log, ready_tracked, ready_weak, ran, saw>>

VARIABLES
    degraded_mode,
    bytes_pinned_from_failed_allocation,
    minor_collection_allowance,
    minor_collection_sections_alloced,
    num_major_sections,     \* major_collector.get_num_major_sections ()
    los_memory_usage,
    allocated_heap,
    max_heap_size,
    soft_heap_limit,
    have_swept,             \* *major_collector.have_swept
    need_calculate_minor_collection_allowance,
    last_collection_old_num_major_sections,
    last_collection_los_memory_usage,
    last_collection_old_los_memory_usage,
    last_collection_los_memory_alloced,
    trace,                  \* history: what the last entry point did, in order
    asked                   \* history: the last need_major_collection query and its answer

drvVars == <<degraded_mode, bytes_pinned_from_failed_allocation, minor_collection_allowance,
             minor_collection_sections_alloced, num_major_sections, los_memory_usage,
             allocated_heap, max_heap_size, soft_heap_limit, have_swept,
             need_calculate_minor_collection_allowance,
             last_collection_old_num_major_sections, last_collection_los_memory_usage,
             last_collection_old_los_memory_usage, last_collection_los_memory_alloced,
             trace, asked>>

\* What the actions of one part leave alone.
VARIABLES
    roots_hash,         \* the three root tables: a set of RootRecords per root type
    roots_size,         \* amount of memory in the root set
    root_aborted,       \* a g_assert of the root registration failed
    root_call,          \* history: the last registration or deregistration call
    round_trip          \* history: a registration of a new start and what followed it

rootVars == <<roots_hash, roots_size, root_aborted, root_call, round_trip>>

VARIABLES
    link_word,          \* *link_addr of a weak link
    hidden_object,      \* history: the object the link was last set to, NULL when removed
    hidden_track,       \* history: the track flag it was set with
    got                 \* history: the last mono_gc_weak_link_get and what it returned

linkVars == <<link_word, hidden_object, hidden_track, got>>

VARIABLES
    bridge              \* bridge processing: whether it is on, and the objects of bridge classes

bridgeVars == <<bridge>>

VARIABLES
    critical_fin_list,  \* the entries of the critical list, head first
    inv,                \* mono_gc_invoke_finalizers: control point and locals, per caller
    critical_objects,   \* the objects whose class derives from the critical-finalizer class
    queued,             \* history: the objects an entry was queued for
    finalizer_runs,     \* history: how often the finalizer of each object was run
    entry_frees,        \* history: how often each entry was freed
    list_corrupt,       \* history: an entry to unlink was not in its list
    inv_result          \* history: count returned by, and finalizers run in, the last call

invVars == <<critical_fin_list, inv, critical_objects, queued, finalizer_runs,
             entry_frees, list_corrupt, inv_result>>

VARIABLES
    lprog,      \* the lock operations each thread still has to run in its function
    lfn,        \* the function each thread is in, "none" outside
    suspended   \* the threads the handshake has suspended

lockVars == <<lprog, lfn, suspended>>

\* The variables of Parts 10 and later.
VARIABLES
    sort_input,   \* the array handed to mono_sgen_sort_addresses
    sort_output   \* what the call left in the array and how many loop steps it took

sortVars == <<sort_input, sort_output>>

VARIABLES
    pin_section,   \* the section handed to mono_sgen_pin_objects_in_section
    pin_before,   \* the section as it was handed over
    pin_outcome   \* what pin_objects_from_addresses pinned, enqueued and returned

pinVars == <<pin_section, pin_before, pin_outcome>>

VARIABLES
    los_pc,   \* where the major collection is with the large objects
    los_object_list,   \* the list of large objects, first to last
    los_objects,   \* the header flag and the reference field of every large object
    los_gray,   \* the gray stack
    los_in,   \* the pin queue, the root and the list the collection started with
    los_trace   \* what the collection pinned from the pin queue, marked and freed

losVars == <<los_pc, los_object_list, los_objects, los_gray, los_in, los_trace>>

VARIABLES
    heap_lowest,   \* lowest_heap_address
    heap_highest,   \* highest_heap_address
    hb_thread,   \* where each caller of mono_sgen_update_heap_boundaries is, with its low, high and old
    hb_calls,   \* the calls (low, high) that returned since the last reset
    hb_major   \* the thread that runs a major collection, the calls it has still to make and the large objects that survived

boundsVars == <<heap_lowest, heap_highest, hb_thread, hb_calls, hb_major>>

VARIABLES
    cd_pc,   \* where mono_gc_clear_domain is
    cd_gc_lock,   \* whether the caller of mono_gc_clear_domain holds the GC lock
    cd_objects,   \* the objects of the nursery, the old generation and the large object store
    cd_los_list,   \* los_object_list
    ephemeron_list,   \* the arrays of the nodes of ephemeron_list, first to last
    cd_before,   \* the objects and the ephemeron list when mono_gc_clear_domain was called
    cd_read_freed   \* whether the unload read the header of an object it had freed

domainVars == <<cd_pc, cd_gc_lock, cd_objects, cd_los_list, ephemeron_list, cd_before, cd_read_freed>>

VARIABLES
    gc_initialized,   \* 0 not initialized, 1 initialized, -1 in progress
    base_init,   \* where each caller of mono_gc_base_init is, its result and the calls it made
    init_bodies,   \* how often the initialization body was entered
    process_exited   \* whether the body ended the process with exit (1)

baseinitVars == <<gc_initialized, base_init, init_bodies, process_exited>>

lateVars == <<sortVars, pinVars, losVars, boundsVars, domainVars, baseinitVars>>

\* The variables of the parts added after the collection drivers.
extVars == <<rootVars, linkVars, bridgeVars, invVars, lockVars, lateVars>>

nonSTW == <<wbVars, gcVars, finVars, drvVars, extVars>>

nonWB == <<stwVars, gcVars, finVars, drvVars, extVars>>

nonGC == <<stwVars, wbVars, finVars, drvVars, extVars>>

nonFin == <<stwVars, wbVars, gcVars, drvVars, extVars>>

nonDrv == <<stwVars, wbVars, gcVars, finVars, extVars>>

coreVars == <<stwVars, wbVars, gcVars, finVars, drvVars>>

nonRoots == <<coreVars, linkVars, bridgeVars, invVars, lockVars, lateVars>>

nonLinks == <<coreVars, rootVars, bridgeVars, invVars, lockVars, lateVars>>

\* What the step-by-step mono_gc_invoke_finalizers leaves alone: all but the GC
\* lock, the fin-ready list and its counter, and its own variables.
nonInv == <<interruption_lock, suspend_lock, entry, pc, info, tstate, loc,
            restart_count, restarted_count, num_threads_died, count, acks,
            collector_attached, disable_minor_collections, disable_major_collections,
            precise_marking, minor_result, need_minor_collection, world_stopped, n_stop,
            n_restart, phases, scanned_conservative, scanned_precise, attempted,
            skipped_in_stop, wbVars, gcVars, fobj, froot, finalizable_hash, dislinks,
            ephemeron, fin_log, ready_tracked, ready_weak, ran, saw, drvVars, rootVars,
            linkVars, bridgeVars, lockVars, lateVars>>

\* What the lock users of Part 9 leave alone: all but the three mutexes and
\* their own variables.
nonLocks == <<entry, pc, info, tstate, loc, restart_count, restarted_count,
              num_threads_died, count, acks, collector_attached,
              disable_minor_collections, disable_major_collections, precise_marking,
              minor_result, need_minor_collection, world_stopped, n_stop, n_restart,
              phases, scanned_conservative, scanned_precise, attempted, skipped_in_stop,
              wbVars, gcVars, finVars, drvVars, rootVars, linkVars, bridgeVars, invVars,
              lateVars>>

EntryPoints == {"mono_gc_collect_0", "mono_gc_collect_1",
                "mono_sgen_collect_nursery_no_lock", "sgen_collect_major_no_lock",
                "minor_collect_or_expand_inner"}

Locations == {"safe", "alloc", "crit", "nostack"}

\* sgen_thread_register: the fields a freshly registered thread starts with.
sgen_thread_register ==
    [skip |-> FALSE, gc_disabled |-> FALSE, thread_is_dying |-> FALSE,
     stack_start |-> FALSE, stopped_ip |-> "NULL"]

\* info->in_critical_region is written by the thread itself.
in_critical_region(t) == loc[t] = "crit"

\* is_ip_in_managed_allocator (domain, ip): FALSE while the calling thread has no
\* MonoInternalThread (thread attach), FALSE for a null ip/domain or an ip the JIT
\* does not know, otherwise whether the method is the write barrier or a managed
\* allocator.
is_ip_in_managed_allocator(ip) ==
    IF ~collector_attached THEN FALSE
    ELSE IF ip = "NULL" THEN FALSE
    ELSE ip = "alloc"

\* The ip/stack a suspend signal handler captures at the thread's position.
captured_ip(t) == IF loc[t] = "alloc" THEN "alloc" ELSE "other"

captured_stack(t) == loc[t] # "nostack"

\* The condition of line 3659: the thread has to be restarted.
needs_restart(t) ==
    /\ ~info[t].thread_is_dying
    /\ \/ ~info[t].stack_start
       \/ in_critical_region(t)
       \/ is_ip_in_managed_allocator(info[t].stopped_ip)

\* mono_sgen_resume_thread / mono_sgen_suspend_thread succeed iff the thread exists.
mono_sgen_resume_thread(t) == tstate[t] # "dead"

mono_sgen_suspend_thread(t) == tstate[t] # "dead"

STWInit ==
    /\ gc_lock = NoThread
    /\ interruption_lock = NoThread
    /\ suspend_lock = NoThread
    /\ entry = "none"
    /\ pc = "idle"
    /\ info = [t \in Threads |-> sgen_thread_register]
    /\ tstate = [t \in Threads |-> "running"]
    /\ loc = [t \in Threads |-> "safe"]
    /\ restart_count = 0
    /\ restarted_count = 0
    /\ num_threads_died = 0
    /\ count = 0
    /\ acks = 0
    /\ collector_attached = TRUE
    /\ disable_minor_collections = FALSE
    /\ disable_major_collections = FALSE
    /\ precise_marking = FALSE
    /\ minor_result = FALSE
    /\ need_minor_collection = FALSE
    /\ world_stopped = FALSE
    /\ n_stop = 0
    /\ n_restart = 0
    /\ phases = <<>>
    /\ scanned_conservative = {}
    /\ scanned_precise = {}
    /\ attempted = {}
    /\ skipped_in_stop = {}


\* The thread that runs the collections of this model; the others are mutators.
CollectorThread == CHOOSE t \in Threads : \A u \in Threads : t <= u

Collector == gc_lock

\* ---- mutator threads (the environment of the collector) ----

\* A running mutator moves between ordinary code, the managed allocator, a
\* critical region and a place where its stack cannot be published.
MutatorMove(t) ==
    /\ tstate[t] = "running"
    /\ t # CollectorThread
    /\ \E l \in Locations \ {loc[t]} : loc' = [loc EXCEPT ![t] = l]
    /\ UNCHANGED <<gc_lock, interruption_lock, suspend_lock, entry, pc, info, tstate,
                   restart_count, restarted_count, num_threads_died, count, acks,
                   collector_attached, disable_minor_collections,
                   disable_major_collections, precise_marking, minor_result,
                   need_minor_collection, world_stopped, n_stop, n_restart, phases,
                   scanned_conservative, scanned_precise, attempted, skipped_in_stop>>
    /\ UNCHANGED nonSTW

\* A thread stops existing: signals sent to it fail from now on.
ThreadDies(t) ==
    /\ tstate[t] # "dead"
    /\ t # CollectorThread
    /\ tstate' = [tstate EXCEPT ![t] = "dead"]
    /\ loc' = [loc EXCEPT ![t] = "safe"]
    /\ UNCHANGED <<gc_lock, interruption_lock, suspend_lock, entry, pc, info,
                   restart_count, restarted_count, num_threads_died, count, acks,
                   collector_attached, disable_minor_collections,
                   disable_major_collections, precise_marking, minor_result,
                   need_minor_collection, world_stopped, n_stop, n_restart, phases,
                   scanned_conservative, scanned_precise, attempted, skipped_in_stop>>
    /\ UNCHANGED nonSTW

\* sgen_thread_unregister, up to the point where it waits for the GC lock.
sgen_thread_unregister(t) ==
    /\ tstate[t] = "running"
    /\ t # CollectorThread
    /\ ~info[t].thread_is_dying
    /\ info' = [info EXCEPT ![t].thread_is_dying = TRUE]
    /\ UNCHANGED <<gc_lock, interruption_lock, suspend_lock, entry, pc, tstate, loc,
                   restart_count, restarted_count, num_threads_died, count, acks,
                   collector_attached, disable_minor_collections,
                   disable_major_collections, precise_marking, minor_result,
                   need_minor_collection, world_stopped, n_stop, n_restart, phases,
                   scanned_conservative, scanned_precise, attempted, skipped_in_stop>>
    /\ UNCHANGED nonSTW

\* mono_gc_set_skip_thread (skip), under LOCK_GC.
mono_gc_set_skip_thread(t, b) ==
    /\ tstate[t] = "running"
    /\ gc_lock = NoThread
    /\ info[t].gc_disabled # b
    /\ info' = [info EXCEPT ![t].gc_disabled = b]
    /\ UNCHANGED <<gc_lock, interruption_lock, suspend_lock, entry, pc, tstate, loc,
                   restart_count, restarted_count, num_threads_died, count, acks,
                   collector_attached, disable_minor_collections,
                   disable_major_collections, precise_marking, minor_result,
                   need_minor_collection, world_stopped, n_stop, n_restart, phases,
                   scanned_conservative, scanned_precise, attempted, skipped_in_stop>>
    /\ UNCHANGED nonSTW

\* ---- the collection entry points ----

\* A thread takes the GC lock (LOCK_GC in mono_gc_collect; held by the caller of the
\* _no_lock entry points and of minor_collect_or_expand_inner) and calls stop_world.
EnterCollection(t, e, attached) ==
    /\ pc = "idle"
    /\ gc_lock = NoThread
    /\ t = CollectorThread
    /\ tstate[t] = "running"
    /\ loc[t] = "safe"
    /\ ~info[t].thread_is_dying
    /\ ~info[t].gc_disabled
    /\ gc_lock' = t
    /\ entry' = e
    /\ collector_attached' = attached
    /\ pc' = "stop_world"
    /\ UNCHANGED <<interruption_lock, suspend_lock, info, tstate, loc, restart_count,
                   restarted_count, num_threads_died, count, acks,
                   disable_minor_collections, disable_major_collections,
                   precise_marking, minor_result, need_minor_collection, world_stopped,
                   n_stop, n_restart, phases, scanned_conservative, scanned_precise,
                   attempted, skipped_in_stop>>
    /\ UNCHANGED nonSTW

\* mono_sgen_thread_handshake (TRUE): every other thread that is not gc_disabled is
\* signalled; a thread that exists suspends and publishes its ip and stack, a thread
\* that does not is marked skip.
handshake_targets == {t \in Threads : t # Collector /\ ~info[t].gc_disabled}

\* stop_world up to the call of restart_threads_until_none_in_managed_allocator:
\* acquire_gc_locks, update_current_thread_stack, the suspend handshake.
stop_world_begin ==
    /\ pc = "stop_world"
    /\ interruption_lock = NoThread
    /\ suspend_lock = NoThread
    /\ interruption_lock' = Collector
    /\ suspend_lock' = Collector
    /\ info' = [t \in Threads |->
                  IF t = Collector THEN [info[t] EXCEPT !.stack_start = TRUE]
                  ELSE IF t \notin handshake_targets THEN info[t]
                  ELSE IF tstate[t] = "dead" THEN [info[t] EXCEPT !.skip = TRUE]
                  ELSE [info[t] EXCEPT !.stopped_ip = captured_ip(t),
                                       !.stack_start = captured_stack(t)]]
    /\ tstate' = [t \in Threads |->
                  IF t \in handshake_targets /\ tstate[t] # "dead"
                  THEN "suspended" ELSE tstate[t]]
    /\ count' = Cardinality({t \in handshake_targets : tstate[t] # "dead"})
    /\ num_threads_died' = 0
    /\ restart_count' = 0
    /\ restarted_count' = 0
    /\ pc' = "restart_loop"
    /\ UNCHANGED <<gc_lock, entry, loc, acks, collector_attached,
                   disable_minor_collections, disable_major_collections,
                   precise_marking, minor_result, need_minor_collection, world_stopped,
                   n_stop, n_restart, phases, scanned_conservative, scanned_precise,
                   attempted, skipped_in_stop>>
    /\ UNCHANGED nonSTW

\* First FOREACH of restart_threads_until_none_in_managed_allocator: restart every
\* thread stopped in an unsafe place; resumed threads post their restart ack.
to_restart == {t \in Threads : ~info[t].skip /\ ~info[t].gc_disabled /\ needs_restart(t)}

restart_unsafe_threads ==
    /\ pc = "restart_loop"
    /\ LET resumed == {t \in to_restart : mono_sgen_resume_thread(t)}
       IN /\ info' = [t \in Threads |->
                        IF info[t].skip \/ info[t].gc_disabled THEN info[t]
                        ELSE IF t \in to_restart
                             THEN IF t \in resumed THEN info[t]
                                  ELSE [info[t] EXCEPT !.skip = TRUE]
                             ELSE [info[t] EXCEPT !.stopped_ip = "NULL"]]
          /\ tstate' = [t \in Threads |-> IF t \in resumed THEN "running" ELSE tstate[t]]
          /\ restart_count' = Cardinality(resumed)
          /\ restarted_count' = 0
          /\ acks' = acks + Cardinality(resumed)
          /\ attempted' = to_restart
          /\ skipped_in_stop' = skipped_in_stop \cup (to_restart \ resumed)
          /\ pc' = IF Cardinality(resumed) = 0 THEN "stop_world_return"
                   ELSE "wait_restart_ack"
    /\ UNCHANGED <<gc_lock, interruption_lock, suspend_lock, entry, loc,
                   num_threads_died, count, collector_attached,
                   disable_minor_collections, disable_major_collections,
                   precise_marking, minor_result, need_minor_collection, world_stopped,
                   n_stop, n_restart, phases, scanned_conservative, scanned_precise>>
    /\ UNCHANGED nonSTW

\* mono_sgen_wait_for_suspend_ack (n): n waits on the ack semaphore.
mono_sgen_wait_for_suspend_ack(n) ==
    /\ acks >= n
    /\ acks' = acks - n

wait_restart_ack ==
    /\ pc = "wait_restart_ack"
    /\ mono_sgen_wait_for_suspend_ack(restart_count)
    /\ pc' = "resuspend"
    /\ UNCHANGED <<gc_lock, interruption_lock, suspend_lock, entry, info, tstate, loc,
                   restart_count, restarted_count, num_threads_died, count,
                   collector_attached, disable_minor_collections,
                   disable_major_collections, precise_marking, minor_result,
                   need_minor_collection, world_stopped, n_stop, n_restart, phases,
                   scanned_conservative, scanned_precise, attempted, skipped_in_stop>>
    /\ UNCHANGED nonSTW

\* Second FOREACH: stop again every thread that was restarted (stopped_ip still set).
to_resuspend == {t \in Threads : ~info[t].skip /\ info[t].stopped_ip # "NULL"}

\* The number of acks line 3714 waits for after the re-suspension.
resuspend_ack_count == restart_count

resuspend_threads ==
    /\ pc = "resuspend"
    /\ LET stopped == {t \in to_resuspend : mono_sgen_suspend_thread(t)}
       IN /\ info' = [t \in Threads |->
                        IF t \notin to_resuspend THEN info[t]
                        ELSE IF t \in stopped
                             THEN [info[t] EXCEPT !.stopped_ip = captured_ip(t),
                                                  !.stack_start = captured_stack(t)]
                             ELSE [info[t] EXCEPT !.skip = TRUE]]
          /\ tstate' = [t \in Threads |-> IF t \in stopped THEN "suspended" ELSE tstate[t]]
          /\ restarted_count' = Cardinality(stopped)
          /\ num_threads_died' = num_threads_died + (restart_count - Cardinality(stopped))
          /\ acks' = acks + Cardinality(stopped)
          /\ attempted' = to_resuspend
          /\ skipped_in_stop' = skipped_in_stop \cup (to_resuspend \ stopped)
    /\ pc' = "wait_suspend_ack"
    /\ UNCHANGED <<gc_lock, interruption_lock, suspend_lock, entry, loc, restart_count,
                   count, collector_attached, disable_minor_collections,
                   disable_major_collections, precise_marking, minor_result,
                   need_minor_collection, world_stopped, n_stop, n_restart, phases,
                   scanned_conservative, scanned_precise>>
    /\ UNCHANGED nonSTW

wait_suspend_ack ==
    /\ pc = "wait_suspend_ack"
    /\ mono_sgen_wait_for_suspend_ack(resuspend_ack_count)
    /\ pc' = "restart_loop"
    /\ UNCHANGED <<gc_lock, interruption_lock, suspend_lock, entry, info, tstate, loc,
                   restart_count, restarted_count, num_threads_died, count,
                   collector_attached, disable_minor_collections,
                   disable_major_collections, precise_marking, minor_result,
                   need_minor_collection, world_stopped, n_stop, n_restart, phases,
                   scanned_conservative, scanned_precise, attempted, skipped_in_stop>>
    /\ UNCHANGED nonSTW

\* The collection an entry point runs first once the world is stopped.
first_phase(e) ==
    IF e \in {"mono_gc_collect_1", "sgen_collect_major_no_lock"}
    THEN "major_collection" ELSE "collect_nursery"

\* stop_world, after the restart loop: count -= died; the world is stopped.
stop_world_return ==
    /\ pc = "stop_world_return"
    /\ count' = count - num_threads_died
    /\ world_stopped' = TRUE
    /\ n_stop' = n_stop + 1
    /\ pc' = first_phase(entry)
    /\ disable_minor_collections' \in BOOLEAN
    /\ disable_major_collections' \in BOOLEAN
    /\ precise_marking' \in BOOLEAN
    /\ attempted' = {}
    /\ UNCHANGED <<gc_lock, interruption_lock, suspend_lock, entry, info, tstate, loc,
                   restart_count, restarted_count, num_threads_died, acks,
                   collector_attached, minor_result,
                   need_minor_collection, n_restart, phases, scanned_conservative,
                   scanned_precise, skipped_in_stop>>
    /\ UNCHANGED nonSTW

\* scan_thread_data (precise): the threads whose stack is scanned (by the runtime's
\* thread_mark_func or conservatively) and whose saved registers are scanned.
scan_thread_data_stack(precise) ==
    {t \in Threads : /\ ~info[t].skip
                     /\ ~info[t].gc_disabled
                     /\ ~info[t].thread_is_dying
                     /\ (precise_marking \/ ~precise)}

scan_thread_data_regs(precise) ==
    {t \in Threads : /\ ~info[t].skip
                     /\ ~info[t].gc_disabled
                     /\ ~info[t].thread_is_dying
                     /\ ~precise}

\* What one collection (minor or major) scans: pin_from_roots calls
\* scan_thread_data (precise = FALSE), job_scan_thread_data calls it with TRUE.
ScanThreads ==
    /\ scanned_conservative' = scanned_conservative
            \cup scan_thread_data_stack(FALSE) \cup scan_thread_data_regs(FALSE)
    /\ scanned_precise' = scanned_precise \cup scan_thread_data_stack(TRUE)

\* Where an entry point continues after its own call of collect_nursery.
mutant_after_collect_nursery(e, needs_major) ==
    IF e = "minor_collect_or_expand_inner" /\ needs_major
    THEN "stop_world" ELSE "restart_world"

after_collect_nursery(e, needs_major) ==
    IF e = "minor_collect_or_expand_inner" /\ needs_major
    THEN "major_collection" ELSE "restart_world"

\* collect_nursery as seen by its callers: nothing happens when minor collections
\* are disabled (it returns TRUE), otherwise a minor collection runs and returns
\* need_major_collection (0) || objects_pinned.
collect_nursery_call(result) ==
    IF disable_minor_collections
    THEN /\ result = TRUE
         /\ UNCHANGED <<phases, scanned_conservative, scanned_precise>>
    ELSE /\ phases' = Append(phases, "minor")
         /\ ScanThreads

entry_collect_nursery ==
    /\ pc = "collect_nursery"
    /\ \E result \in BOOLEAN :
          /\ collect_nursery_call(result)
          /\ minor_result' = result
          /\ pc' = after_collect_nursery(entry, result)
    /\ UNCHANGED <<gc_lock, interruption_lock, suspend_lock, entry, info, tstate, loc,
                   restart_count, restarted_count, num_threads_died, count, acks,
                   collector_attached, disable_minor_collections,
                   disable_major_collections, precise_marking, need_minor_collection,
                   world_stopped, n_stop, n_restart, attempted, skipped_in_stop>>
    /\ UNCHANGED nonSTW

\* major_collection: with major collections disabled it runs a minor instead;
\* otherwise major_do_collection, which returns bytes_pinned_from_failed_allocation > 0.
major_collection ==
    /\ pc = "major_collection"
    /\ IF disable_major_collections
       THEN /\ need_minor_collection' = TRUE
            /\ UNCHANGED <<phases, scanned_conservative, scanned_precise>>
       ELSE /\ need_minor_collection' \in BOOLEAN
            /\ phases' = Append(phases, "major")
            /\ ScanThreads
    /\ pc' = IF need_minor_collection' THEN "major_collect_nursery" ELSE "restart_world"
    /\ UNCHANGED <<gc_lock, interruption_lock, suspend_lock, entry, info, tstate, loc,
                   restart_count, restarted_count, num_threads_died, count, acks,
                   collector_attached, disable_minor_collections,
                   disable_major_collections, precise_marking, minor_result,
                   world_stopped, n_stop, n_restart, attempted, skipped_in_stop>>
    /\ UNCHANGED nonSTW

\* The collect_nursery (0) calls inside major_collection (lines 3102 and 3112).
major_collect_nursery ==
    /\ pc = "major_collect_nursery"
    /\ \E result \in BOOLEAN : collect_nursery_call(result)
    /\ need_minor_collection' = FALSE
    /\ pc' = "restart_world"
    /\ UNCHANGED <<gc_lock, interruption_lock, suspend_lock, entry, info, tstate, loc,
                   restart_count, restarted_count, num_threads_died, count, acks,
                   collector_attached, disable_minor_collections,
                   disable_major_collections, precise_marking, minor_result,
                   world_stopped, n_stop, n_restart, attempted, skipped_in_stop>>
    /\ UNCHANGED nonSTW

\* restart_world: forget the published stacks, release the locks, restart handshake.
restart_world ==
    /\ pc = "restart_world"
    /\ world_stopped' = FALSE
    /\ n_restart' = n_restart + 1
    /\ interruption_lock' = NoThread
    /\ suspend_lock' = NoThread
    /\ info' = [t \in Threads |->
                  IF t \in handshake_targets /\ tstate[t] = "dead"
                  THEN [info[t] EXCEPT !.stack_start = FALSE, !.skip = TRUE]
                  ELSE [info[t] EXCEPT !.stack_start = FALSE]]
    /\ tstate' = [t \in Threads |->
                  IF t \in handshake_targets /\ tstate[t] = "suspended"
                  THEN "running" ELSE tstate[t]]
    /\ pc' = "return"
    /\ UNCHANGED <<gc_lock, entry, loc, restart_count, restarted_count,
                   num_threads_died, count, acks, collector_attached,
                   disable_minor_collections, disable_major_collections,
                   precise_marking, minor_result, need_minor_collection, n_stop,
                   phases, scanned_conservative, scanned_precise,
                   attempted, skipped_in_stop>>
    /\ UNCHANGED nonSTW

\* The entry point returns and the GC lock is released.
return_from_collection ==
    /\ pc = "return"
    /\ gc_lock' = NoThread
    /\ entry' = "none"
    /\ pc' = "idle"
    /\ restart_count' = 0
    /\ restarted_count' = 0
    /\ num_threads_died' = 0
    /\ count' = 0
    /\ collector_attached' = TRUE
    /\ disable_minor_collections' = FALSE
    /\ disable_major_collections' = FALSE
    /\ precise_marking' = FALSE
    /\ minor_result' = FALSE
    /\ need_minor_collection' = FALSE
    /\ n_stop' = 0
    /\ n_restart' = 0
    /\ phases' = <<>>
    /\ scanned_conservative' = {}
    /\ scanned_precise' = {}
    /\ attempted' = {}
    /\ skipped_in_stop' = {}
    /\ UNCHANGED <<interruption_lock, suspend_lock, info, tstate, loc, acks, world_stopped>>
    /\ UNCHANGED nonSTW

NextSTW ==
    \/ \E t \in Threads : MutatorMove(t)
    \/ \E t \in Threads : ThreadDies(t)
    \/ \E t \in Threads : sgen_thread_unregister(t)
    \/ \E t \in Threads, b \in BOOLEAN : mono_gc_set_skip_thread(t, b)
    \/ \E t \in Threads, e \in EntryPoints, a \in BOOLEAN : EnterCollection(t, e, a)
    \/ stop_world_begin
    \/ restart_unsafe_threads
    \/ wait_restart_ack
    \/ resuspend_threads
    \/ wait_suspend_ack
    \/ stop_world_return
    \/ entry_collect_nursery
    \/ major_collection
    \/ major_collect_nursery
    \/ restart_world
    \/ return_from_collection

(***************************************************************************)
(* Part 2.  The write barrier entry points.                                *)
(*                                                                         *)
(* Memory is a row of pointer-sized slots.  A slot holds NULL or the       *)
(* address of a slot.  One mutator thread calls the barriers; a call is    *)
(* split where the order of recording and storing can be observed.         *)
(***************************************************************************)

\* Largest element count of a copying barrier call.
MaxCount == 2

NULL == 0

\* Address layout: the nursery, then an old-generation block, then the stack of
\* the calling thread.
NurserySlots == 1..3

OldSlots == 4..5

StackSlots == {6}

Slots == NurserySlots \cup OldSlots \cup StackSlots

\* sizeof (MonoObject), in slots.
sizeof_MonoObject == 1

\* The references a mutator has at hand: NULL and a nursery object.
MutatorValues == {NULL, CHOOSE a \in NurserySlots : \A b \in NurserySlots : a <= b}

ptr_in_nursery(p) == p \in NurserySlots

ptr_on_stack(p) == p \in StackSlots

\* A copy that runs forward over an overlapping source repeats its first word.
mutant_mono_gc_memmove(m, dest, src, n) ==
    [a \in DOMAIN m |-> IF a >= dest /\ a < dest + n THEN m[src] ELSE m[a]]

\* mono_gc_memmove: the destination receives the bytes the source held before.
mono_gc_memmove(m, dest, src, n) ==
    [a \in DOMAIN m |-> IF a >= dest /\ a < dest + n THEN m[src + (a - dest)] ELSE m[a]]

NoCall == [op |-> "none", dest |-> NULL, src |-> NULL, count |-> 0, value |-> NULL,
           has_references |-> FALSE, at |-> "done"]

WBInit ==
    /\ mem = [a \in Slots |-> NULL]
    /\ remset = {}
    /\ wbarrier \in {"remset", "cardtable"}
    /\ wb = NoCall

WBParked ==
    /\ mem = [a \in Slots |-> NULL]
    /\ remset = {}
    /\ wbarrier = "remset"
    /\ wb = NoCall

\* A block of n slots starting at p lies inside one region.
InOneRegion(p, n) ==
    \E R \in {NurserySlots, OldSlots, StackSlots} : \A i \in 0..(n - 1) : p + i \in R

StoreOps == {"set_field", "set_arrayref", "generic_store"}

\* The mutator calls a barrier that stores one reference.
CallStore(op, ptr, value) ==
    /\ wb.at = "done"
    /\ op \in StoreOps
    /\ wb' = [NoCall EXCEPT !.op = op, !.dest = ptr, !.value = value, !.at = "entry"]
    /\ UNCHANGED <<mem, remset, wbarrier>>
    /\ UNCHANGED nonWB

\* The mutator has stored a reference itself and calls the generic barrier.
CallNostore(ptr) ==
    /\ wb.at = "done"
    /\ wb' = [NoCall EXCEPT !.op = "generic_nostore", !.dest = ptr, !.at = "entry"]
    /\ UNCHANGED <<mem, remset, wbarrier>>
    /\ UNCHANGED nonWB

CopyOps == {"arrayref_copy", "value_copy", "object_copy"}

\* The mutator calls a copying barrier.  A class without references has no
\* reference in its instances; object_copy copies the fields behind the header.
CallCopy(op, dest, src, n, refs) ==
    /\ wb.at = "done"
    /\ op \in CopyOps
    /\ LET hdr == IF op = "object_copy" THEN sizeof_MonoObject ELSE 0
       IN /\ InOneRegion(dest, hdr + n)
          /\ InOneRegion(src, hdr + n)
          /\ op = "value_copy" \/ refs
          /\ op = "arrayref_copy" \/ n >= 1
          /\ ~refs => \A i \in 0..(n - 1) : mem[src + hdr + i] = NULL
    /\ wb' = [NoCall EXCEPT !.op = op, !.dest = dest, !.src = src, !.count = n,
                            !.has_references = refs, !.at = "entry"]
    /\ UNCHANGED <<mem, remset, wbarrier>>
    /\ UNCHANGED nonWB

\* remset.wbarrier_* record their slots before they store: the store buffer takes
\* the slots that receive a nursery pointer, the card table every slot.
remset_record(news) ==
    remset' = remset \cup {s \in DOMAIN news :
                              wbarrier = "cardtable" \/ ptr_in_nursery(news[s])}

\* First slot written by a copying call, and the slot its source starts at.
CopyDest(w) == w.dest + (IF w.op = "object_copy" THEN sizeof_MonoObject ELSE 0)

CopySrc(w) == w.src + (IF w.op = "object_copy" THEN sizeof_MonoObject ELSE 0)

\* The values a copying call is about to write, by destination slot.
CopyNews(w) ==
    [s \in {a \in Slots : a >= CopyDest(w) /\ a < CopyDest(w) + w.count}
        |-> mem[CopySrc(w) + (s - CopyDest(w))]]

\* mono_gc_wbarrier_set_field and mono_gc_wbarrier_set_arrayref.
wbarrier_set(op) ==
    /\ wb.op = op
    /\ wb.at = "entry"
    /\ IF ptr_in_nursery(wb.dest)
       THEN /\ mem' = [mem EXCEPT ![wb.dest] = wb.value]
            /\ wb' = [wb EXCEPT !.at = "return"]
            /\ UNCHANGED remset
       ELSE /\ remset_record([s \in {wb.dest} |-> wb.value])
            /\ wb' = [wb EXCEPT !.at = "recorded"]
            /\ UNCHANGED mem
    /\ UNCHANGED wbarrier
    /\ UNCHANGED nonWB

mono_gc_wbarrier_set_field == wbarrier_set("set_field")

mono_gc_wbarrier_set_arrayref == wbarrier_set("set_arrayref")

\* A copying barrier: plain memmove on its fast path, else the remset's copy.
wbarrier_copy(op, fast) ==
    /\ wb.op = op
    /\ wb.at = "entry"
    /\ IF fast
       THEN /\ mem' = mono_gc_memmove(mem, CopyDest(wb), CopySrc(wb), wb.count)
            /\ wb' = [wb EXCEPT !.at = "return"]
            /\ UNCHANGED remset
       ELSE /\ remset_record(CopyNews(wb))
            /\ wb' = [wb EXCEPT !.at = "recorded"]
            /\ UNCHANGED mem
    /\ UNCHANGED wbarrier
    /\ UNCHANGED nonWB

mono_gc_wbarrier_arrayref_copy ==
    wbarrier_copy("arrayref_copy", ptr_in_nursery(wb.dest) \/ wb.count <= 0)

mono_gc_wbarrier_value_copy ==
    wbarrier_copy("value_copy", ptr_in_nursery(wb.dest) \/ ptr_on_stack(wb.dest)
                                \/ ~wb.has_references)

mono_gc_wbarrier_object_copy ==
    wbarrier_copy("object_copy", ptr_in_nursery(wb.dest) \/ ptr_on_stack(wb.dest))

\* The store or copy that ends remset.wbarrier_*.
remset_store ==
    /\ wb.at = "recorded"
    /\ mem' = IF wb.op \in CopyOps
              THEN mono_gc_memmove(mem, CopyDest(wb), CopySrc(wb), wb.count)
              ELSE [mem EXCEPT ![wb.dest] = wb.value]
    /\ wb' = [wb EXCEPT !.at = "return"]
    /\ UNCHANGED <<remset, wbarrier>>
    /\ UNCHANGED nonWB

mutant_nostore_skips(ptr) == ptr_in_nursery(ptr) \/ ptr_on_stack(ptr)

\* The test of mono_gc_wbarrier_generic_nostore that skips the recording.
nostore_skips(ptr) ==
    ptr_in_nursery(ptr) \/ ptr_on_stack(ptr) \/ ~ptr_in_nursery(mem[ptr])

\* The body of mono_gc_wbarrier_generic_nostore (ptr).
generic_nostore(ptr) ==
    remset' = IF nostore_skips(ptr) THEN remset ELSE remset \cup {ptr}

mono_gc_wbarrier_generic_nostore ==
    /\ wb.op = "generic_nostore"
    /\ wb.at = "entry"
    /\ generic_nostore(wb.dest)
    /\ wb' = [wb EXCEPT !.at = "return"]
    /\ UNCHANGED <<mem, wbarrier>>
    /\ UNCHANGED nonWB

\* mono_gc_wbarrier_generic_store: the store of its first statement.
mono_gc_wbarrier_generic_store ==
    /\ wb.op = "generic_store"
    /\ wb.at = "entry"
    /\ mem' = [mem EXCEPT ![wb.dest] = wb.value]
    /\ wb' = [wb EXCEPT !.at = "stored"]
    /\ UNCHANGED <<remset, wbarrier>>
    /\ UNCHANGED nonWB

\* mono_gc_wbarrier_generic_store: the barrier call after the store.
generic_store_barrier ==
    /\ wb.op = "generic_store"
    /\ wb.at = "stored"
    /\ IF ptr_in_nursery(wb.value) THEN generic_nostore(wb.dest) ELSE UNCHANGED remset
    /\ wb' = [wb EXCEPT !.at = "return"]
    /\ UNCHANGED <<mem, wbarrier>>
    /\ UNCHANGED nonWB

\* The barrier returns to the mutator.
wbarrier_return ==
    /\ wb.at = "return"
    /\ wb' = NoCall
    /\ UNCHANGED <<mem, remset, wbarrier>>
    /\ UNCHANGED nonWB

NextWB ==
    \/ \E op \in StoreOps, p \in Slots, v \in MutatorValues : CallStore(op, p, v)
    \/ \E p \in Slots : CallNostore(p)
    \/ \E op \in CopyOps, d \in Slots, s \in Slots, n \in 0..MaxCount, r \in BOOLEAN :
           CallCopy(op, d, s, n, r)
    \/ mono_gc_wbarrier_set_field
    \/ mono_gc_wbarrier_set_arrayref
    \/ mono_gc_wbarrier_arrayref_copy
    \/ mono_gc_wbarrier_value_copy
    \/ mono_gc_wbarrier_object_copy
    \/ remset_store
    \/ mono_gc_wbarrier_generic_nostore
    \/ mono_gc_wbarrier_generic_store
    \/ generic_store_barrier
    \/ wbarrier_return

(***************************************************************************)
(* Part 3.  Pinning, copying and tracing: collect_nursery and              *)
(* major_do_collection on a small heap.                                    *)
(*                                                                         *)
(* Addresses count pointer-sized words.  Every object takes ObjectSize     *)
(* words: a two-word header, one reference field and padding.  The nursery *)
(* holds nursery_size words, the major heap for the cells of    *)
(* OldCells.  One registered root holds a precise reference; the words of  *)
(* cwords are scanned conservatively (a pinned root and a thread stack).   *)
(***************************************************************************)

\* Collections run one after the other in a behaviour.
MaxCollections == 2

ALLOC_ALIGN == 2

ObjectSize == 4

SCAN_START_SIZE == 4

nursery_start == 8

nursery_size == 8

nursery_end == nursery_start + nursery_size

\* The addresses at which a nursery object can start.
NurseryCells == {a \in nursery_start..(nursery_end - 1) :
                    (a - nursery_start) % ObjectSize = 0}

\* The blocks of the major heap and the registered root area.
OldCells == {24, 28, 32}

RootCell == 40

Cells == NurseryCells \cup OldCells \cup {RootCell}

\* mono_sgen_ptr_in_nursery
mono_sgen_ptr_in_nursery(p) == p >= nursery_start /\ p < nursery_end

mono_gc_get_generation(obj) == IF mono_sgen_ptr_in_nursery(obj) THEN 0 ELSE 1

ALIGN_UP(s) == ((s + (ALLOC_ALIGN - 1)) \div ALLOC_ALIGN) * ALLOC_ALIGN

FreeCell == [live |-> FALSE, id |-> 0, field |-> NULL, pinned |-> FALSE,
             forward |-> NULL, marked |-> FALSE]

NewObject(i, f) == [FreeCell EXCEPT !.live = TRUE, !.id = i, !.field = f]

\* The first word of an object is its vtable; free nursery memory reads as zero.
VtableAt(h, a) == a \in NurseryCells /\ h[a].live

\* section->scan_starts [idx]: the first object that starts in chunk idx.
scan_starts(h, idx) ==
    LET in_chunk == {c \in NurseryCells : /\ h[c].live
                                          /\ (c - nursery_start) \div SCAN_START_SIZE = idx}
    IN IF in_chunk = {} THEN NULL ELSE CHOOSE c \in in_chunk : \A d \in in_chunk : c <= d

mutant_conservatively_pin_objects_from(words, start_n, end_n) == <<>>

\* conservatively_pin_objects_from: the addresses staged for the words of an area.
RECURSIVE conservatively_pin_objects_from(_, _, _)
conservatively_pin_objects_from(words, start_n, end_n) ==
    IF words = <<>> THEN <<>>
    ELSE LET w == Head(words)
             addr == w - (w % ALLOC_ALIGN)
             staged == IF w >= start_n /\ w < end_n /\ addr >= start_n /\ addr < end_n
                       THEN <<addr>> ELSE <<>>
         IN staged \o conservatively_pin_objects_from(Tail(words), start_n, end_n)

\* mono_sgen_optimize_pin_queue: the staged addresses, sorted and uniqued.
RECURSIVE SortedSeq(_)
SortedSeq(S) ==
    IF S = {} THEN <<>>
    ELSE LET m == CHOOSE x \in S : \A y \in S : x <= y
         IN <<m>> \o SortedSeq(S \ {m})

mono_sgen_optimize_pin_queue(q) == SortedSeq({q[i] : i \in DOMAIN q})

\* The do-while loop of pin_objects_from_addresses: walk from search_start to the
\* object that contains addr.  Yields the object found (or NULL) and the last
\* object walked over.
RECURSIVE FindFrom(_, _, _, _, _)
FindFrom(h, addr, search_start, last_obj, last_obj_size) ==
    IF ~VtableAt(h, search_start)
    THEN LET next == ALIGN_UP(search_start + 1)
         IN IF next <= addr
            THEN FindFrom(h, addr, next, last_obj, last_obj_size)
            ELSE [found |-> NULL, last_obj |-> last_obj, last_obj_size |-> last_obj_size]
    ELSE LET size == ALIGN_UP(ObjectSize)
         IN IF addr >= search_start /\ addr < search_start + size
            THEN [found |-> search_start, last_obj |-> search_start, last_obj_size |-> size]
            ELSE IF search_start + size <= addr
                 THEN FindFrom(h, addr, search_start + size, search_start, size)
                 ELSE [found |-> NULL, last_obj |-> search_start, last_obj_size |-> size]

\* Where pin_objects_from_addresses starts to look for the object of addr.
SearchStart(h, addr, start_n, last_obj, last_obj_size) ==
    LET idx == (addr - nursery_start) \div SCAN_START_SIZE
        usable == {i \in 0..idx : scan_starts(h, i) # NULL /\ scan_starts(h, i) <= addr}
        from_table == IF usable = {} THEN start_n
                      ELSE scan_starts(h, CHOOSE i \in usable : \A j \in usable : j <= i)
    IN IF from_table < last_obj THEN last_obj + last_obj_size ELSE from_table

\* pin_objects_from_addresses: the objects pinned for a sorted array of addresses,
\* in the order in which they are pinned.
RECURSIVE pin_objects_from_addresses(_, _, _, _, _, _, _)
pin_objects_from_addresses(h, q, start_n, end_n, last, last_obj, last_obj_size) ==
    IF q = <<>> THEN <<>>
    ELSE LET addr == Head(q)
         IN IF addr # last /\ addr >= start_n /\ addr < end_n
            THEN IF addr >= last_obj /\ addr < last_obj + last_obj_size
                 THEN pin_objects_from_addresses(h, Tail(q), start_n, end_n, last,
                                                 last_obj, last_obj_size)
                 ELSE LET r == FindFrom(h, addr,
                                        SearchStart(h, addr, start_n, last_obj, last_obj_size),
                                        last_obj, last_obj_size)
                      IN (IF r.found # NULL THEN <<r.found>> ELSE <<>>)
                         \o pin_objects_from_addresses(h, Tail(q), start_n, end_n, addr,
                                                       r.last_obj, r.last_obj_size)
            ELSE pin_objects_from_addresses(h, Tail(q), start_n, end_n, last,
                                            last_obj, last_obj_size)

\* The collector state that the copying and scanning functions work on.
GCState == [heap |-> heap, gray |-> gray_queue, pins |-> pin_queue,
            objects_pinned |-> objects_pinned, space |-> to_space_left,
            remset |-> global_remset, was_pinned |-> was_pinned,
            was_enqueued |-> was_enqueued]

Commit(g) ==
    /\ heap' = g.heap
    /\ gray_queue' = g.gray
    /\ pin_queue' = g.pins
    /\ objects_pinned' = g.objects_pinned
    /\ to_space_left' = g.space
    /\ global_remset' = g.remset
    /\ was_pinned' = g.was_pinned
    /\ was_enqueued' = g.was_enqueued

GRAY_OBJECT_ENQUEUE(g, obj) ==
    [g EXCEPT !.gray = Append(g.gray, obj), !.was_enqueued = g.was_enqueued \cup {obj}]

\* pin_object, with the history of what was pinned in this collection.
pin_object(g, obj) ==
    [g EXCEPT !.heap[obj].pinned = TRUE, !.was_pinned = g.was_pinned \cup {obj}]

\* mono_sgen_pin_object (serial collector): late pinning after a failed evacuation.
mono_sgen_pin_object(g, obj) ==
    LET p == pin_object(g, obj)
    IN GRAY_OBJECT_ENQUEUE([p EXCEPT !.pins = Append(p.pins, obj),
                                    !.objects_pinned = p.objects_pinned + 1], obj)

mutant_mono_sgen_add_to_global_remset(g, ptr) == g

\* mono_sgen_add_to_global_remset: remset.record_pointer (ptr).
mono_sgen_add_to_global_remset(g, ptr) == [g EXCEPT !.remset = g.remset \cup {ptr}]

\* The blocks of the major heap that can take an evacuated object.
FreeOldCells(g) == IF g.space > 0 THEN {c \in OldCells : ~g.heap[c].live} ELSE {}

\* The copy function of the minor collector, applied to the field slot of cell c.
copy_object(g, c) ==
    LET obj == g.heap[c].field
    IN IF obj = NULL \/ ~mono_sgen_ptr_in_nursery(obj) THEN g
       ELSE IF g.heap[obj].forward # NULL
            THEN [g EXCEPT !.heap[c].field = g.heap[obj].forward]
       ELSE IF g.heap[obj].pinned THEN g
       ELSE IF FreeOldCells(g) = {} THEN mono_sgen_pin_object(g, obj)
       ELSE LET free == FreeOldCells(g)
                dest == CHOOSE d \in free : \A e \in free : d <= e
                copied == [g.heap[obj] EXCEPT !.marked =
                                                (current_collection_generation = "old")]
                h1 == [g.heap EXCEPT ![dest] = copied, ![obj].forward = dest]
                h2 == [h1 EXCEPT ![c].field = dest]
            IN GRAY_OBJECT_ENQUEUE([g EXCEPT !.heap = h2, !.space = g.space - 1], dest)

\* The copy-or-mark function of the major collector.
copy_or_mark_object(g, c) ==
    LET obj == g.heap[c].field
    IN IF obj = NULL THEN g
       ELSE IF mono_sgen_ptr_in_nursery(obj) THEN copy_object(g, c)
       ELSE IF g.heap[obj].marked THEN g
       ELSE GRAY_OBJECT_ENQUEUE([g EXCEPT !.heap[obj].marked = TRUE], obj)

mutant_scan_object(g, obj) == g

\* The scan function of drain_gray_stack: the minor or the major one.
scan_object(g, obj) ==
    LET g1 == IF current_collection_generation = "nursery"
              THEN copy_object(g, obj) ELSE copy_or_mark_object(g, obj)
    IN IF ~mono_sgen_ptr_in_nursery(obj) /\ mono_sgen_ptr_in_nursery(g1.heap[obj].field)
       THEN mono_sgen_add_to_global_remset(g1, obj)
       ELSE g1

\* Scanning the remembered slots of q in order: a slot whose referent stays in the
\* nursery goes to the global remset.
RECURSIVE scan_remsets(_, _)
scan_remsets(g, q) ==
    IF q = <<>> THEN g
    ELSE LET c == Head(q)
             g1 == IF g.heap[c].live THEN copy_object(g, c) ELSE g
             g2 == IF g1.heap[c].live /\ mono_sgen_ptr_in_nursery(g1.heap[c].field)
                   THEN mono_sgen_add_to_global_remset(g1, c) ELSE g1
         IN scan_remsets(g2, Tail(q))

\* The object the mutator allocated in the major heap.
FirstOldCell == CHOOSE c \in OldCells : \A d \in OldCells : c <= d

\* The words a conservative scan can find in a pinned root: nothing, the start of
\* the first nursery object, unaligned and last words of it, its end, the end of
\* the nursery, an old object.
Candidates == {NULL, nursery_start, nursery_start + 1, nursery_start + ObjectSize - 1,
               nursery_start + ObjectSize, nursery_end, FirstOldCell}

\* The words it can find in the thread stack: nothing or a pointer into the first
\* nursery object.
StackCandidates == {NULL, nursery_start + 1}

\* A heap as the mutator leaves it: references lead to objects, and every slot of
\* the major heap that points into the nursery is remembered.
GCInit ==
    /\ \E young \in (SUBSET NurseryCells) \ {{}} :
         LET live == young \cup {FirstOldCell}
         IN \E f \in [live \cup {RootCell} -> live \cup {NULL}] :
              /\ f[FirstOldCell] # FirstOldCell
              /\ heap = [c \in Cells |->
                           IF c = RootCell THEN NewObject(0, f[c])
                           ELSE IF c \in live THEN NewObject(c, f[c])
                           ELSE FreeCell]
    /\ cwords \in {<<a, b>> : a \in Candidates, b \in StackCandidates}
    /\ global_remset = {FirstOldCell}
    /\ to_space_left \in 1..(Cardinality(OldCells) - 1)
    /\ pin_queue = <<>>
    /\ gray_queue = <<>>
    /\ objects_pinned = 0
    /\ gpc = "idle"
    /\ current_collection_generation = "none"
    /\ collections = <<>>
    /\ heap_before = heap
    /\ remset_before = global_remset
    /\ was_pinned = {}
    /\ was_enqueued = {}

GCParked ==
    /\ heap = [c \in Cells |-> FreeCell]
    /\ cwords = <<>>
    /\ global_remset = {}
    /\ to_space_left = 0
    /\ pin_queue = <<>>
    /\ gray_queue = <<>>
    /\ objects_pinned = 0
    /\ gpc = "idle"
    /\ current_collection_generation = "none"
    /\ collections = <<>>
    /\ heap_before = heap
    /\ remset_before = {}
    /\ was_pinned = {}
    /\ was_enqueued = {}

mutant_collection_phases(generation) ==
    IF generation = "nursery"
    THEN <<"scan_remsets", "drain_remsets", "pin_from_roots", "pin_objects",
           "scan_roots", "drain_roots", "finish">>
    ELSE <<"scan_roots", "drain_roots", "pin_from_roots", "pin_objects", "finish">>

\* The order of the phases of collect_nursery and of major_do_collection.
collection_phases(generation) ==
    IF generation = "nursery"
    THEN <<"pin_from_roots", "pin_objects", "scan_remsets", "drain_remsets",
           "scan_roots", "drain_roots", "finish">>
    ELSE <<"pin_from_roots", "pin_objects", "scan_roots", "drain_roots", "finish">>

\* The phase that follows the current one.
next_phase ==
    LET ph == collection_phases(current_collection_generation)
        i == CHOOSE j \in DOMAIN ph : ph[j] = gpc
    IN ph[i + 1]

\* The start of collect_nursery ("nursery") or major_do_collection ("old"), up to
\* mono_sgen_init_pinning.  Remsets are dropped at the start of a major collection.
start_collection(generation) ==
    /\ gpc = "idle"
    /\ Len(collections) < MaxCollections
    /\ collections' = Append(collections, generation)
    /\ current_collection_generation' = generation
    /\ objects_pinned' = 0
    /\ gray_queue' = <<>>
    /\ pin_queue' = <<>>
    /\ global_remset' = IF generation = "old" THEN {} ELSE global_remset
    /\ heap_before' = heap
    /\ remset_before' = global_remset
    /\ was_pinned' = {}
    /\ was_enqueued' = {}
    /\ gpc' = Head(collection_phases(generation))
    /\ UNCHANGED <<heap, cwords, to_space_left>>
    /\ UNCHANGED nonGC

lowest_heap_address == nursery_start

highest_heap_address == ObjectSize + CHOOSE c \in OldCells : \A d \in OldCells : d <= c

\* The address range pin_from_roots is called with.
PinRange ==
    IF current_collection_generation = "nursery"
    THEN <<nursery_start, nursery_end>>
    ELSE <<lowest_heap_address, highest_heap_address>>

\* pin_from_roots: the pinned roots and the thread stacks are scanned
\* conservatively and their candidates staged.
pin_from_roots ==
    /\ gpc = "pin_from_roots"
    /\ pin_queue' = conservatively_pin_objects_from(cwords, PinRange[1], PinRange[2])
    /\ gpc' = next_phase
    /\ UNCHANGED <<heap, cwords, global_remset, to_space_left, gray_queue, objects_pinned,
                   current_collection_generation, collections, heap_before,
                   remset_before, was_pinned, was_enqueued>>
    /\ UNCHANGED nonGC

RECURSIVE PinAndEnqueue(_, _)
PinAndEnqueue(g, objs) ==
    IF objs = <<>> THEN g
    ELSE PinAndEnqueue(GRAY_OBJECT_ENQUEUE(pin_object(g, Head(objs)), Head(objs)),
                       Tail(objs))

\* major_collector.pin_objects: the objects of the major heap that hold a candidate.
major_pin_objects(h, q) ==
    SortedSeq({c \in OldCells : h[c].live /\ \E i \in DOMAIN q :
                                               q[i] >= c /\ q[i] < c + ObjectSize})

\* mono_sgen_optimize_pin_queue, then mono_sgen_pin_objects_in_section on the
\* nursery section and, in a major collection, major_collector.pin_objects.
pin_objects ==
    /\ gpc = "pin_objects"
    /\ LET q == mono_sgen_optimize_pin_queue(pin_queue)
           in_nursery == pin_objects_from_addresses(heap, q, nursery_start, nursery_end,
                                                    NULL, NULL, 0)
           in_major == IF current_collection_generation = "old"
                       THEN major_pin_objects(heap, q) ELSE <<>>
           g1 == PinAndEnqueue([GCState EXCEPT !.pins = in_nursery], in_nursery)
           g2 == PinAndEnqueue(g1, in_major)
       IN Commit([g2 EXCEPT !.heap = [c \in Cells |->
                     IF c \in OldCells /\ g2.heap[c].pinned
                     THEN [g2.heap[c] EXCEPT !.marked = TRUE] ELSE g2.heap[c]]])
    /\ gpc' = next_phase
    /\ UNCHANGED <<cwords, current_collection_generation, collections, heap_before,
                   remset_before>>
    /\ UNCHANGED nonGC

\* remset.begin_scan_remsets and job_finish_remembered_set_scan.
scan_remembered_set ==
    /\ gpc = "scan_remsets"
    /\ Commit(scan_remsets([GCState EXCEPT !.remset = {}], SortedSeq(global_remset)))
    /\ gpc' = next_phase
    /\ UNCHANGED <<cwords, current_collection_generation, collections, heap_before,
                   remset_before>>
    /\ UNCHANGED nonGC

\* mono_sgen_drain_gray_stack: one object is taken from the gray stack and scanned;
\* the phase ends when the stack is empty.
mono_sgen_drain_gray_stack ==
    /\ gpc \in {"drain_remsets", "drain_roots"}
    /\ IF gray_queue = <<>>
       THEN /\ gpc' = next_phase
            /\ UNCHANGED <<heap, gray_queue, pin_queue, objects_pinned, to_space_left,
                           global_remset, was_pinned, was_enqueued>>
       ELSE /\ LET obj == gray_queue[Len(gray_queue)]
                   rest == SubSeq(gray_queue, 1, Len(gray_queue) - 1)
               IN Commit(scan_object([GCState EXCEPT !.gray = rest], obj))
            /\ UNCHANGED gpc
    /\ UNCHANGED <<cwords, current_collection_generation, collections, heap_before,
                   remset_before>>
    /\ UNCHANGED nonGC

\* job_scan_from_registered_roots: precisely_scan_objects_from applies the copy
\* function of the collection to the root slot.
precisely_scan_objects_from ==
    /\ gpc = "scan_roots"
    /\ Commit(IF current_collection_generation = "nursery"
              THEN copy_object(GCState, RootCell)
              ELSE copy_or_mark_object(GCState, RootCell))
    /\ gpc' = next_phase
    /\ UNCHANGED <<cwords, current_collection_generation, collections, heap_before,
                   remset_before>>
    /\ UNCHANGED nonGC

\* major_collector.sweep: unmarked objects of the major heap are freed.
sweep(h) ==
    [c \in Cells |->
        IF c \in OldCells
        THEN IF h[c].live /\ h[c].marked
             THEN [h[c] EXCEPT !.marked = FALSE, !.pinned = FALSE]
             ELSE FreeCell
        ELSE h[c]]

\* mono_sgen_build_nursery_fragments: pinned objects stay and are unpinned, the
\* rest of the nursery becomes free memory.
mono_sgen_build_nursery_fragments(h) ==
    [c \in Cells |->
        IF c \in NurseryCells
        THEN IF h[c].live /\ h[c].pinned THEN [h[c] EXCEPT !.pinned = FALSE] ELSE FreeCell
        ELSE h[c]]

\* The end of collect_nursery or major_do_collection, from the sweep on.
finish_collection ==
    /\ gpc = "finish"
    /\ heap' = mono_sgen_build_nursery_fragments(
                   IF current_collection_generation = "old" THEN sweep(heap) ELSE heap)
    /\ pin_queue' = <<>>
    /\ objects_pinned' = 0
    /\ current_collection_generation' = "none"
    /\ gpc' = "idle"
    /\ UNCHANGED <<cwords, global_remset, to_space_left, gray_queue, collections,
                   heap_before, remset_before, was_pinned, was_enqueued>>
    /\ UNCHANGED nonGC

NextGC ==
    \/ \E g \in {"nursery", "old"} : start_collection(g)
    \/ pin_from_roots
    \/ pin_objects
    \/ scan_remembered_set
    \/ mono_sgen_drain_gray_stack
    \/ precisely_scan_objects_from
    \/ finish_collection

(***************************************************************************)
(* Part 4.  Finalization, disappearing links and ephemerons:               *)
(* finish_gray_stack and mono_gc_invoke_finalizers.                        *)
(***************************************************************************)

Objects == {1, 2, 3}

\* domain->ephemeron_tombstone
tombstone == 9

\* The two disappearing links: HIDE_POINTER (p, FALSE) and HIDE_POINTER (p, TRUE).
LinkKinds == {"weak", "track"}

DISLINK_TRACK(k) == k = "track"

\* The collector state that finish_gray_stack works on.
FinState(generation, exhausted) ==
    [obj |-> fobj, marked |-> {}, gray |-> <<>>, fin_hash |-> finalizable_hash,
     fin_list |-> fin_ready_list, num_ready |-> num_ready_finalizers, links |-> dislinks,
     eph |-> ephemeron, generation |-> generation, exhausted |-> exhausted,
     nothing_marked |-> TRUE, queued |-> {}, queued_tracked |-> {}, queued_weak |-> {},
     bridge |-> bridge, steps |-> <<>>, eph_log |-> <<>>, fin_passes |-> <<>>,
     num_loops |-> 0]

\* History kept in the collector state: the call of a step of the collection with
\* the generation (or range) it is applied to.
Step(g, name, generation) ==
    [g EXCEPT !.steps = Append(@, [step |-> name, generation |-> generation])]

\* start_addr <= object < end_addr: the nursery in a minor collection, the whole
\* heap in a major one.
in_range(g, o) == g.generation = "old" \/ g.obj[o].gen = 0

\* major_collector.is_object_live: forwarded, pinned or marked in this collection.
is_object_live(g, o) == o \in g.marked

\* object_is_reachable
object_is_reachable(g, o) == ~in_range(g, o) \/ is_object_live(g, o)

\* The copy function of the collection applied to a slot that holds o: the object
\* is marked (evacuated from the nursery unless the to-space is exhausted, then
\* pinned in place) and put on the gray stack.  A slot that holds the address of
\* reclaimed memory is left alone.
copy_func(g, o) ==
    IF o = NULL \/ o = tombstone THEN g
    ELSE IF ~g.obj[o].alive \/ ~in_range(g, o) \/ o \in g.marked THEN g
    ELSE [g EXCEPT !.marked = g.marked \cup {o},
                   !.gray = Append(g.gray, o),
                   !.obj[o].gen = IF g.exhausted THEN g.obj[o].gen ELSE 1]

\* mono_sgen_drain_gray_stack (queue, -1)
RECURSIVE drain_gray_stack(_)
drain_gray_stack(g) ==
    IF g.gray = <<>> THEN g
    ELSE LET o == g.gray[Len(g.gray)]
             rest == [g EXCEPT !.gray = SubSeq(g.gray, 1, Len(g.gray) - 1)]
         IN drain_gray_stack(copy_func(rest, g.obj[o].ref))

\* The copy function applied to the slots of q in order.
RECURSIVE CopyEach(_, _)
CopyEach(g, q) == IF q = <<>> THEN g ELSE CopyEach(copy_func(g, Head(q)), Tail(q))

\* scan_finalizer_entries: entries whose object was taken by the finalizer thread
\* are skipped.
scan_finalizer_entries(g) == CopyEach(g, SelectSeq(g.fin_list, LAMBDA e : e # NULL))

\* The roots of a collection: the registered root; in a minor collection the
\* remembered slots of the old generation; in a major collection the fin-ready
\* lists.
ScanRoots(g) ==
    LET r == copy_func(g, froot)
        scanned ==
            IF g.generation = "nursery"
            THEN Step(Step(Step(
                    drain_gray_stack(CopyEach(r,
                        SortedSeq({g.obj[o].ref : o \in {x \in Objects : g.obj[x].alive /\ g.obj[x].gen = 1}}
                                  \ {NULL}))),
                    "job_finish_remembered_set_scan", g.generation),
                    "job_scan_from_registered_roots", g.generation),
                    "job_scan_thread_data", g.generation)
            ELSE Step(Step(Step(
                    drain_gray_stack(scan_finalizer_entries(r)),
                    "job_scan_from_registered_roots", g.generation),
                    "job_scan_thread_data", g.generation),
                    "job_scan_finalizer_entries", g.generation)
    IN Step(scanned, "mono_sgen_workers_join", g.generation)

\* object_is_reachable for the ephemeron array, an object of the old generation:
\* outside the range of a minor collection, marked from its root in a major one.
array_is_reachable(g) == g.generation = "nursery" \/ g.eph.rooted

\* The objects that object_is_reachable holds for.
ReachableObjects(g) == {o \in Objects : g.obj[o].alive /\ object_is_reachable(g, o)}

\* The body of the loop of mark_ephemerons_in_range for one slot of the array:
\* the key and the value of a pair with a reachable key are copied, and
\* nothing_marked is cleared if the value was not reachable.
mark_pair(g, key, value) ==
    IF key = NULL \/ key = tombstone THEN g
    ELSE IF ~object_is_reachable(g, key) THEN g
    ELSE LET k == copy_func(g, key)
         IN IF value = NULL THEN k
            ELSE copy_func([k EXCEPT !.nothing_marked =
                                k.nothing_marked /\ object_is_reachable(k, value)],
                           value)

mutant_mark_ephemerons_in_range(g) ==
    [mark_pair(mark_pair(g, g.eph.key0, g.eph.value0), g.eph.key, g.eph.value)
        EXCEPT !.nothing_marked = TRUE]

\* mark_ephemerons_in_range: the slots of a reachable array are visited in
\* order; nothing_marked tells whether every value with a reachable key was
\* reachable already.
mark_ephemerons_in_range(g) ==
    LET g0 == [g EXCEPT !.nothing_marked = TRUE]
    IN IF ~g.eph.listed \/ ~array_is_reachable(g) THEN g0
       ELSE mark_pair(mark_pair(g0, g.eph.key0, g.eph.value0), g.eph.key, g.eph.value)

\* The do-while loops of finish_gray_stack around mark_ephemerons_in_range.
RECURSIVE ephemeron_rounds(_)
ephemeron_rounds(g) ==
    LET m == mark_ephemerons_in_range(Step(g, "mark_ephemerons_in_range", g.generation))
        d == drain_gray_stack(Step(m, "mono_sgen_drain_gray_stack", g.generation))
        done == [d EXCEPT !.eph_log = Append(@,
                    [nothing_marked |-> m.nothing_marked,
                     marked |-> m.marked \ g.marked,
                     before |-> ReachableObjects(g),
                     after |-> ReachableObjects(d)])]
    IN IF m.nothing_marked THEN done ELSE ephemeron_rounds(done)

mutant_clear_unreachable_ephemerons(g) == g

\* clear_unreachable_ephemerons: an unreachable array leaves ephemeron_list; in a
\* reachable one a pair with an unreachable key becomes (tombstone, NULL).
clear_unreachable_ephemerons(g) ==
    IF ~g.eph.listed THEN g
    ELSE IF ~array_is_reachable(g) THEN [g EXCEPT !.eph.listed = FALSE]
    ELSE LET dead0 == /\ g.eph.key0 # NULL /\ g.eph.key0 # tombstone
                      /\ ~object_is_reachable(g, g.eph.key0)
             dead == /\ g.eph.key # NULL /\ g.eph.key # tombstone
                     /\ ~object_is_reachable(g, g.eph.key)
         IN [g EXCEPT !.eph.key0 = IF dead0 THEN tombstone ELSE @,
                      !.eph.value0 = IF dead0 THEN NULL ELSE @,
                      !.eph.key = IF dead THEN tombstone ELSE @,
                      !.eph.value = IF dead THEN NULL ELSE @]

\* null_link_in_range: the links that do not track resurrection are handled
\* before finalization, the tracking ones after it; a link whose referent is in
\* range and not reachable is nulled.
null_link_in_range(g, before_finalization) ==
    [g EXCEPT !.links = [k \in LinkKinds |->
        LET object == g.links[k]
        IN IF /\ DISLINK_TRACK(k) # before_finalization
              /\ object # NULL
              /\ in_range(g, object)
              /\ ~is_object_live(g, object)
           THEN NULL ELSE object]]

\* queue_finalization_entry: the entry goes to the head of the list.
queue_finalization_entry(g, o) == [g EXCEPT !.fin_list = <<o>> \o g.fin_list]

\* finalize_in_range for the objects of q: an object of the finalizable hash that
\* is in range and not reachable leaves the hash, is queued for finalization and
\* becomes a root; the gray stack is drained by the caller.
RECURSIVE finalize_in_range(_, _)
finalize_in_range(g, q) ==
    IF q = <<>> THEN g
    ELSE LET o == Head(q)
         IN IF g.obj[o].alive /\ in_range(g, o) /\ ~is_object_live(g, o)
            THEN LET g1 == [g EXCEPT !.fin_hash = g.fin_hash \ {o},
                                     !.num_ready = g.num_ready + 1,
                                     !.queued = g.queued \cup {o},
                                     !.queued_tracked = IF g.links["track"] = o
                                                        THEN g.queued_tracked \cup {o}
                                                        ELSE g.queued_tracked,
                                     !.queued_weak = IF dislinks["weak"] = o
                                                     THEN g.queued_weak \cup {o}
                                                     ELSE g.queued_weak]
                 IN finalize_in_range(copy_func(queue_finalization_entry(g1, o), o), Tail(q))
            ELSE finalize_in_range(g, Tail(q))

\* A step of finish_gray_stack that works on the tables of one generation: it is
\* called for the generation collected and, in a major collection, once more
\* for the nursery tables.
PerGeneration(g, name) ==
    IF g.generation = "old"
    THEN Step(Step(g, name, "old"), name, "nursery")
    ELSE Step(g, name, "nursery")

mutant_finalize_rounds(g) ==
    LET f == drain_gray_stack(finalize_in_range(g, SortedSeq(g.fin_hash)))
    IN [f EXCEPT !.fin_passes = Append(@, f.num_ready - g.num_ready),
                 !.num_loops = IF f.num_ready # g.num_ready THEN @ + 1 ELSE @]

\* The finalization loop of finish_gray_stack.
RECURSIVE finalize_rounds(_)
finalize_rounds(g) ==
    LET fin_ready == g.num_ready
        f == drain_gray_stack(Step(
                 finalize_in_range(PerGeneration(g, "finalize_in_range"),
                                   SortedSeq(g.fin_hash)),
                 "mono_sgen_drain_gray_stack", g.generation))
        counted == [f EXCEPT !.fin_passes = Append(@, f.num_ready - fin_ready),
                             !.num_loops = IF fin_ready # f.num_ready THEN @ + 1 ELSE @]
    IN IF fin_ready # f.num_ready THEN finalize_rounds(counted) ELSE counted

\* mono_sgen_need_bridge_processing
mono_sgen_need_bridge_processing(g) == g.bridge.processing

\* collect_bridge_objects for the objects of q: a bridge object of the
\* finalizable hash that is in range and ready for finalization is kept alive
\* and stays in the hash.
RECURSIVE collect_bridge_objects(_, _)
collect_bridge_objects(g, q) ==
    IF q = <<>> THEN g
    ELSE LET o == Head(q)
         IN IF /\ g.obj[o].alive /\ in_range(g, o) /\ ~is_object_live(g, o)
               /\ o \in g.bridge.objects
            THEN collect_bridge_objects(copy_func(g, o), Tail(q))
            ELSE collect_bridge_objects(g, Tail(q))

\* The last loop of finish_gray_stack: the tracking links are nulled, and again
\* after a drain for as long as that left objects on the gray queue.
RECURSIVE null_tracking_rounds(_)
null_tracking_rounds(g) ==
    LET nulled == null_link_in_range(PerGeneration(g, "null_link_in_range after"), FALSE)
    IN IF nulled.gray = <<>> THEN nulled
       ELSE null_tracking_rounds(
                drain_gray_stack(Step(nulled, "mono_sgen_drain_gray_stack", g.generation)))

mutant_finish_gray_stack(g) ==
    LET drained == drain_gray_stack(Step(g, "mono_sgen_drain_gray_stack", g.generation))
        fin == finalize_rounds(drained)
        weak == null_link_in_range(PerGeneration(fin, "null_link_in_range before"), TRUE)
        eph2 == ephemeron_rounds(weak)
        cleared == clear_unreachable_ephemerons(
                       Step(eph2, "clear_unreachable_ephemerons", g.generation))
    IN drain_gray_stack(null_link_in_range(PerGeneration(cleared, "null_link_in_range after"),
                                           FALSE))

\* finish_gray_stack
finish_gray_stack(g) ==
    LET drained == drain_gray_stack(Step(g, "mono_sgen_drain_gray_stack", g.generation))
        reset == Step(drained, "mono_sgen_bridge_reset_data", g.generation)
        eph1 == ephemeron_rounds(reset)
        toggle == PerGeneration(eph1, "mono_sgen_scan_togglerefs")
        bridged ==
            IF mono_sgen_need_bridge_processing(toggle)
            THEN drain_gray_stack(Step(
                     collect_bridge_objects(PerGeneration(toggle, "collect_bridge_objects"),
                                            SortedSeq(toggle.fin_hash)),
                     "mono_sgen_drain_gray_stack", g.generation))
            ELSE toggle
        weak == null_link_in_range(PerGeneration(bridged, "null_link_in_range before"), TRUE)
        fin == finalize_rounds(weak)
        eph2 == ephemeron_rounds(fin)
        cleared == clear_unreachable_ephemerons(
                       Step(eph2, "clear_unreachable_ephemerons", g.generation))
    IN null_tracking_rounds(cleared)

\* The sweep of the major heap and the rebuilding of the nursery fragments: what
\* is in range and was not reached is reclaimed.
reclaim(g) ==
    [o \in Objects |-> IF g.obj[o].alive /\ in_range(g, o) /\ ~is_object_live(g, o)
                       THEN [g.obj[o] EXCEPT !.alive = FALSE] ELSE g.obj[o]]

\* The heaps the mutator hands to a collection: objects 1 and 2 may reference each
\* other and be registered for finalization, both links may hide object 1, and
\* the ephemeron array of the old generation holds one pair whose value is
\* object 3.
FinInit ==
    /\ \E r1 \in {NULL, 2}, r2 \in {NULL, 1}, g1 \in {0, 1} :
         fobj = [o \in Objects |->
                   [alive |-> TRUE,
                    gen |-> IF o = 1 THEN g1 ELSE 0,
                    ref |-> IF o = 1 THEN r1 ELSE IF o = 2 THEN r2 ELSE NULL]]
    /\ froot \in {NULL, 1, 2}
    /\ finalizable_hash \in SUBSET {1, 2}
    /\ fin_ready_list = <<>>
    /\ num_ready_finalizers = 0
    /\ dislinks \in [LinkKinds -> {NULL, 1}]
    /\ \E rooted \in BOOLEAN, key \in {1, 2} :
         ephemeron = [listed |-> TRUE, rooted |-> rooted, key0 |-> NULL, value0 |-> NULL,
                      key |-> key, value |-> 3]
    /\ fin_log = <<>>
    /\ ready_tracked = {}
    /\ ready_weak = {}
    /\ ran = {}
    /\ saw = <<>>

\* The heaps handed to a collection when the steps of finish_gray_stack are
\* looked at: nursery objects 1 and 2 may reference each other, be registered for
\* finalization and be of a bridge class; the tracking link hides object 1;
\* the rooted ephemeron array holds the pair (key, 3) and, in the slot before
\* it, either nothing or a pair whose key is object 3.
FgsInit ==
    /\ \E r1 \in {NULL, 2}, r2 \in {NULL, 1} :
         fobj = [o \in Objects |->
                   [alive |-> TRUE,
                    gen |-> 0,
                    ref |-> IF o = 1 THEN r1 ELSE IF o = 2 THEN r2 ELSE NULL]]
    /\ froot \in {NULL, 1, 2}
    /\ finalizable_hash \in SUBSET {1, 2}
    /\ fin_ready_list = <<>>
    /\ num_ready_finalizers = 0
    /\ dislinks = [k \in LinkKinds |-> IF DISLINK_TRACK(k) THEN 1 ELSE NULL]
    /\ \E key \in {1, 2}, chained \in BOOLEAN :
         ephemeron = [listed |-> TRUE, rooted |-> TRUE,
                      key0 |-> IF chained THEN 3 ELSE NULL,
                      value0 |-> IF chained THEN 3 - key ELSE NULL,
                      key |-> key, value |-> 3]
    /\ fin_log = <<>>
    /\ ready_tracked = {}
    /\ ready_weak = {}
    /\ ran = {}
    /\ saw = <<>>
    /\ \E processing \in BOOLEAN, objects \in {{}, {1}, {2}} :
         /\ objects # {} => processing
         /\ bridge = [processing |-> processing, objects |-> objects]

FinParked ==
    /\ fobj = [o \in Objects |-> [alive |-> FALSE, gen |-> 0, ref |-> NULL]]
    /\ froot = NULL
    /\ finalizable_hash = {}
    /\ fin_ready_list = <<>>
    /\ num_ready_finalizers = 0
    /\ dislinks = [k \in LinkKinds |-> NULL]
    /\ ephemeron = [listed |-> FALSE, rooted |-> FALSE, key0 |-> NULL, value0 |-> NULL,
                    key |-> NULL, value |-> NULL]
    /\ fin_log = <<>>
    /\ ready_tracked = {}
    /\ ready_weak = {}
    /\ ran = {}
    /\ saw = <<>>

\* The state a collection leaves: finish_gray_stack has run, the major heap is
\* swept and the nursery rebuilt.
FinCommit(g) ==
    /\ fobj' = reclaim(g)
    /\ finalizable_hash' = g.fin_hash
    /\ fin_ready_list' = g.fin_list
    /\ num_ready_finalizers' = g.num_ready
    /\ dislinks' = g.links
    /\ ephemeron' = g.eph
    /\ ready_tracked' = ready_tracked \cup g.queued_tracked
    /\ ready_weak' = ready_weak \cup g.queued_weak
    /\ fin_log' = Append(fin_log, [generation |-> g.generation, queued |-> g.queued])

\* collect_nursery from the scan of the roots on; it does not scan the fin-ready
\* lists.
minor_finalization ==
    /\ Len(fin_log) < MaxCollections
    /\ \E exhausted \in BOOLEAN :
         FinCommit(finish_gray_stack(ScanRoots(FinState("nursery", exhausted))))
    /\ UNCHANGED <<froot, ran, saw>>
    /\ UNCHANGED nonFin

\* major_do_collection from the scan of the roots on; the fin-ready lists are roots.
major_finalization ==
    /\ Len(fin_log) < MaxCollections
    /\ \E exhausted \in BOOLEAN :
         FinCommit(finish_gray_stack(ScanRoots(FinState("old", exhausted))))
    /\ UNCHANGED <<froot, ran, saw>>
    /\ UNCHANGED nonFin

\* mono_gc_pending_finalizers
mono_gc_pending_finalizers == fin_ready_list # <<>>

\* One round of the loop of mono_gc_invoke_finalizers: the first entry is taken
\* from the list and its finalizer run; saw records what the finalizer finds.
mono_gc_invoke_finalizers ==
    /\ mono_gc_pending_finalizers
    /\ LET obj == Head(fin_ready_list)
       IN /\ ran' = ran \cup {obj}
          /\ saw' = Append(saw, [object |-> obj,
                                 alive |-> fobj[obj].alive,
                                 weak |-> dislinks["weak"],
                                 track |-> dislinks["track"]])
    /\ fin_ready_list' = Tail(fin_ready_list)
    /\ num_ready_finalizers' = num_ready_finalizers - 1
    /\ UNCHANGED <<fobj, froot, finalizable_hash, dislinks, ephemeron, fin_log,
                   ready_tracked, ready_weak>>
    /\ UNCHANGED nonFin

\* The mutator clears the registered root slot.
mutator_drops_root ==
    /\ froot # NULL
    /\ froot' = NULL
    /\ UNCHANGED <<fobj, finalizable_hash, fin_ready_list, num_ready_finalizers, dislinks,
                   ephemeron, fin_log, ready_tracked, ready_weak, ran, saw>>
    /\ UNCHANGED nonFin

NextFin ==
    \/ minor_finalization
    \/ major_finalization
    \/ mono_gc_invoke_finalizers
    \/ mutator_drops_root

NextFgs ==
    \/ minor_finalization
    \/ major_finalization
    \/ mutator_drops_root

(***************************************************************************)
(* Part 5.  The collection drivers, degraded mode and the allowance        *)
(*          heuristic.                                                     *)
(*                                                                         *)
(* An entry point holds the GC lock and keeps the world stopped from its   *)
(* stop_world to its restart_world, so each one is a single step here; the *)
(* collections it runs are recorded, in order, in trace.  What a           *)
(* collection finds in the heap (objects that cannot be evacuated, the     *)
(* nursery fragments left, the sections swept) is an input of the step.    *)
(***************************************************************************)

\* The largest mword; soft_heap_limit and max_heap_size start there.
mword_max == 65535

mword(n) == n % (mword_max + 1)

MAX(a, b) == IF a > b THEN a ELSE b

MIN(a, b) == IF a < b THEN a ELSE b

DEFAULT_NURSERY_SIZE == nursery_size

MIN_MINOR_COLLECTION_ALLOWANCE == DEFAULT_NURSERY_SIZE * 4

\* major_collector.section_size
section_size == 32

\* A large object of the model takes as much as two sections.
los_object_size == 2 * section_size

\* The max-heap-size option, in sections on top of the nursery.
MaxHeapSections == 3

max_heap == nursery_size + MaxHeapSections * section_size

\* The soft-heap-limit option: 0 when not given.
SoftLimits == {0, MIN_MINOR_COLLECTION_ALLOWANCE + nursery_size, max_heap}

\* The collector's globals as one record, so that the functions below compose.
DrvState ==
    [degraded_mode |-> degraded_mode,
     bytes_pinned_from_failed_allocation |-> bytes_pinned_from_failed_allocation,
     objects_pinned |-> 0,
     minor_collection_allowance |-> minor_collection_allowance,
     minor_collection_sections_alloced |-> minor_collection_sections_alloced,
     num_major_sections |-> num_major_sections,
     los_memory_usage |-> los_memory_usage,
     allocated_heap |-> allocated_heap,
     max_heap_size |-> max_heap_size,
     soft_heap_limit |-> soft_heap_limit,
     have_swept |-> have_swept,
     need_calculate_minor_collection_allowance |-> need_calculate_minor_collection_allowance,
     last_collection_old_num_major_sections |-> last_collection_old_num_major_sections,
     last_collection_los_memory_usage |-> last_collection_los_memory_usage,
     last_collection_old_los_memory_usage |-> last_collection_old_los_memory_usage,
     last_collection_los_memory_alloced |-> last_collection_los_memory_alloced,
     disable_minor_collections |-> disable_minor_collections,
     disable_major_collections |-> disable_major_collections,
     no_fragments |-> FALSE,
     ret |-> FALSE,
     trace |-> <<>>]

available_free_space(g) == mword(g.max_heap_size - MIN(g.allocated_heap, g.max_heap_size))

\* mono_sgen_try_alloc_space: FALSE (the record is left alone) when the heap is full.
mono_sgen_try_alloc_space(g, size) ==
    IF available_free_space(g) < size
    THEN [g EXCEPT !.ret = FALSE]
    ELSE [g EXCEPT !.allocated_heap = mword(g.allocated_heap + size), !.ret = TRUE]

mono_sgen_release_space(g, size) ==
    [g EXCEPT !.allocated_heap = mword(g.allocated_heap - size)]

mono_sgen_register_major_sections_alloced(g, num_sections) ==
    [g EXCEPT !.minor_collection_sections_alloced =
                    g.minor_collection_sections_alloced + num_sections]

reset_minor_collection_allowance(g) ==
    [g EXCEPT !.need_calculate_minor_collection_allowance = TRUE]

\* The two clamps of try_calculate_minor_collection_allowance.
mutant_clamp_allowance(g, allowance_target) ==
    MIN(allowance_target, mword(g.num_major_sections * section_size + g.los_memory_usage))

clamp_allowance(g, allowance_target) ==
    MAX(MIN(allowance_target,
            mword(g.num_major_sections * section_size + g.los_memory_usage)),
        MIN_MINOR_COLLECTION_ALLOWANCE)

mutant_limit_allowance(g, new_heap_size, allowance) == allowance

limit_allowance(g, new_heap_size, allowance) ==
    IF mword(new_heap_size + allowance) > g.soft_heap_limit
    THEN IF new_heap_size > g.soft_heap_limit
         THEN MIN_MINOR_COLLECTION_ALLOWANCE
         ELSE MAX(mword(g.soft_heap_limit - new_heap_size), MIN_MINOR_COLLECTION_ALLOWANCE)
    ELSE allowance

new_heap_size_of(g) ==
    mword(g.num_major_sections * section_size + g.last_collection_los_memory_usage)

mutant_try_calculate_minor_collection_allowance(g, overwrite) ==
    IF g.need_calculate_minor_collection_allowance /\ overwrite
    THEN [g EXCEPT !.minor_collection_allowance = MIN_MINOR_COLLECTION_ALLOWANCE,
                   !.need_calculate_minor_collection_allowance = FALSE]
    ELSE g

try_calculate_minor_collection_allowance(g, overwrite) ==
    IF ~g.need_calculate_minor_collection_allowance
    THEN g
    ELSE IF ~g.have_swept
    THEN IF overwrite
         THEN [g EXCEPT !.minor_collection_allowance = MIN_MINOR_COLLECTION_ALLOWANCE]
         ELSE g
    ELSE
    LET num_major_sections_saved ==
            MAX(g.last_collection_old_num_major_sections - g.num_major_sections, 0)
        los_memory_saved ==
            MAX(mword(g.last_collection_old_los_memory_usage
                        - g.last_collection_los_memory_usage), 1)
        new_major == g.num_major_sections * section_size
        new_heap_size == new_heap_size_of(g)
        save_target == (new_major + los_memory_saved) \div 2
        allowance_target ==
            (save_target * (g.minor_collection_sections_alloced * section_size
                                + g.last_collection_los_memory_alloced))
                \div (num_major_sections_saved * section_size + los_memory_saved)
        allowance ==
            limit_allowance(g, new_heap_size, clamp_allowance(g, allowance_target))
    IN  [g EXCEPT !.minor_collection_allowance = allowance,
                  !.need_calculate_minor_collection_allowance = FALSE,
                  !.trace = Append(@, [kind |-> "allowance",
                                       num_major_sections |-> g.num_major_sections,
                                       los_memory_usage |-> g.los_memory_usage,
                                       new_heap_size |-> new_heap_size,
                                       last_collection_old_los_memory_usage |->
                                           g.last_collection_old_los_memory_usage,
                                       last_collection_los_memory_usage |->
                                           g.last_collection_los_memory_usage,
                                       los_memory_saved |-> los_memory_saved,
                                       denominator |->
                                           num_major_sections_saved * section_size
                                               + los_memory_saved,
                                       allowance_target |-> allowance_target,
                                       allowance |-> allowance])]

mutant_need_major_collection(g, space_needed) ==
    space_needed > available_free_space(g)

need_major_collection(g, space_needed) ==
    LET los_alloced == mword(g.los_memory_usage
                               - MIN(g.last_collection_los_memory_usage, g.los_memory_usage))
    IN  \/ space_needed > available_free_space(g)
        \/ g.minor_collection_sections_alloced * section_size + los_alloced
              > g.minor_collection_allowance

\* One entry of trace.
Event(kind, reason, returned, pinned, due, fragment_total) ==
    [kind |-> kind, reason |-> reason, returned |-> returned, pinned |-> pinned,
     due |-> due, fragment_total |-> fragment_total]

Mark(g, kind) ==
    [g EXCEPT !.trace = Append(@, Event(kind, "", FALSE, 0, FALSE, 0))]

\* What the copying of one collection does to the major heap.
Evacuations == {"fits", "grows", "fails"}

\* A fragment total of the rebuilt nursery: nothing free, or one object's worth.
FragmentTotals == {0, ObjectSize}

\* The copy function could not get to-space for an object: it is pinned in place.
evacuation_failed(g) ==
    [g EXCEPT !.objects_pinned = g.objects_pinned + 1,
              !.bytes_pinned_from_failed_allocation = mword(@ + ObjectSize)]

\* Copying survivors: they fit in the sections there are, or the major heap grows
\* by a section, or to-space is exhausted (also when the heap limit refuses the section).
Evacuate(g, how) ==
    IF how = "fits" THEN g
    ELSE IF how = "fails" THEN evacuation_failed(g)
    ELSE LET a == mono_sgen_try_alloc_space(g, section_size)
         IN  IF a.ret
             THEN mono_sgen_register_major_sections_alloced(
                      [a EXCEPT !.num_major_sections = @ + 1], 1)
             ELSE evacuation_failed(g)

MinorInputs == [evacuation : Evacuations, fragment_total : FragmentTotals]

mutant_collect_nursery(g, in) ==
    IF g.disable_minor_collections
    THEN [g EXCEPT !.ret = TRUE,
                   !.trace = Append(@, Event("no minor", "", TRUE, 0,
                                             need_major_collection(g, 0), 0))]
    ELSE
    LET g1 == [g EXCEPT !.bytes_pinned_from_failed_allocation = 0,
                        !.degraded_mode = 0,
                        !.objects_pinned = 0]
        g2 == try_calculate_minor_collection_allowance(g1, FALSE)
        g3 == Evacuate(g2, in.evacuation)
        g4 == [g3 EXCEPT !.degraded_mode = IF in.fragment_total = 0 THEN 1 ELSE @,
                         !.no_fragments = (in.fragment_total = 0)]
        needs_major == need_major_collection(g4, 0)
    IN  [g4 EXCEPT !.objects_pinned = 0,
                   !.ret = needs_major,
                   !.trace = Append(@, Event("minor", "", needs_major, g4.objects_pinned,
                                             need_major_collection(g4, 0),
                                             in.fragment_total))]

\* collect_nursery: returns (in ret) whether a major collection is needed.
collect_nursery(g, in) ==
    IF g.disable_minor_collections
    THEN [g EXCEPT !.ret = TRUE,
                   !.trace = Append(@, Event("no minor", "", TRUE, 0,
                                             need_major_collection(g, 0), 0))]
    ELSE
    LET g1 == [g EXCEPT !.bytes_pinned_from_failed_allocation = 0,
                        !.degraded_mode = 0,
                        !.objects_pinned = 0]
        g2 == try_calculate_minor_collection_allowance(g1, FALSE)
        g3 == Evacuate(g2, in.evacuation)
        g4 == [g3 EXCEPT !.degraded_mode = IF in.fragment_total = 0 THEN 1 ELSE @,
                         !.no_fragments = (in.fragment_total = 0)]
        needs_major == need_major_collection(g4, 0) \/ g4.objects_pinned > 0
    IN  [g4 EXCEPT !.objects_pinned = 0,
                   !.ret = needs_major,
                   !.trace = Append(@, Event("minor", "", needs_major, g4.objects_pinned,
                                             need_major_collection(g4, 0),
                                             in.fragment_total))]

\* What the sweep of a major collection can free, and whether the collector has
\* finished sweeping when major_do_collection computes the allowance.
Sweeps == {"nothing", "a section", "a large object"}

MajorInputs == [evacuation : Evacuations, fragment_total : FragmentTotals,
                sweep : Sweeps, swept : BOOLEAN]

\* mono_sgen_los_sweep, then major_collector.sweep.
Sweep(g, in) ==
    LET freed_los == IF in.sweep = "a large object"
                     THEN MIN(g.los_memory_usage, los_object_size) ELSE 0
        freed == IF in.sweep = "a section" THEN MIN(g.num_major_sections, 1) ELSE 0
        l == mono_sgen_release_space([g EXCEPT !.los_memory_usage = @ - freed_los],
                                     freed_los)
    IN  mono_sgen_release_space([l EXCEPT !.num_major_sections = @ - freed,
                                          !.have_swept = in.swept],
                                freed * section_size)

\* major_do_collection: returns (in ret) bytes_pinned_from_failed_allocation > 0.
major_do_collection(g, reason, in) ==
    LET g1 == [g EXCEPT
                !.bytes_pinned_from_failed_allocation = 0,
                !.last_collection_old_num_major_sections = g.num_major_sections,
                !.last_collection_los_memory_alloced =
                    mword(g.los_memory_usage
                            - MIN(g.last_collection_los_memory_usage, g.los_memory_usage)),
                !.last_collection_old_los_memory_usage = g.los_memory_usage,
                !.objects_pinned = 0,
                !.degraded_mode = 0,
                !.have_swept = FALSE]
        g2 == reset_minor_collection_allowance(g1)
        copied == Evacuate(g2, in.evacuation)
        g3 == [copied EXCEPT !.objects_pinned = 0]
        g4 == Sweep(g3, in)
        g5 == [g4 EXCEPT !.degraded_mode = IF in.fragment_total = 0 THEN 1 ELSE @,
                         !.no_fragments = (in.fragment_total = 0)]
        g6 == try_calculate_minor_collection_allowance(g5, TRUE)
        g7 == [g6 EXCEPT !.minor_collection_sections_alloced = 0,
                         !.last_collection_los_memory_usage = g6.los_memory_usage]
        pinned == g7.bytes_pinned_from_failed_allocation > 0
    IN  [g7 EXCEPT !.ret = pinned,
                   !.trace = Append(@, Event("major", reason, pinned,
                                             copied.objects_pinned,
                                             FALSE, in.fragment_total))]

\* The states a call of collect_nursery can end in.
CollectNursery(g) == {collect_nursery(g, in) : in \in MinorInputs}

MajorDoCollection(g, reason) ==
    {major_do_collection(g, reason, in) : in \in MajorInputs}

\* major_collection (reason): the states it can end in.
mutant_major_collection_from(g, reason) ==
    IF g.disable_major_collections
    THEN CollectNursery(g)
    ELSE MajorDoCollection(g, reason)

major_collection_from(g, reason) ==
    IF g.disable_major_collections
    THEN CollectNursery(g)
    ELSE UNION {IF m.ret THEN CollectNursery(m) ELSE {m} :
                    m \in MajorDoCollection(g, reason)}

NoQuestion == [space_needed |-> 0, answer |-> FALSE]

\* mono_gc_base_init: the allowance starts at its minimum, nothing is allocated.
HeapInit ==
    /\ degraded_mode = 0
    /\ bytes_pinned_from_failed_allocation = 0
    /\ minor_collection_allowance = MIN_MINOR_COLLECTION_ALLOWANCE
    /\ minor_collection_sections_alloced = 0
    /\ num_major_sections = 0
    /\ los_memory_usage = 0
    /\ allocated_heap = 0
    /\ have_swept = FALSE
    /\ need_calculate_minor_collection_allowance = FALSE
    /\ last_collection_old_num_major_sections = 0
    /\ last_collection_los_memory_usage = 0
    /\ last_collection_old_los_memory_usage = 0
    /\ last_collection_los_memory_alloced = 0
    /\ trace = <<>>
    /\ asked = NoQuestion

\* init_heap_size_limits (max_heap, soft_limit), for the option values it accepts.
init_heap_size_limits(max_heap_option, soft_limit) ==
    /\ max_heap_option = 0 \/ max_heap_option >= soft_limit
    /\ max_heap_option = 0 \/ max_heap_option >= nursery_size * 4
    /\ soft_heap_limit = IF soft_limit # 0 THEN soft_limit ELSE mword_max
    /\ max_heap_size = IF max_heap_option # 0 THEN max_heap_option - nursery_size
                       ELSE mword_max

\* The collector started with the debug options disable-minor / disable-major, a
\* small heap and no soft heap limit.
DrvInit ==
    /\ HeapInit
    /\ init_heap_size_limits(max_heap - section_size, 0)
    /\ disable_minor_collections \in BOOLEAN
    /\ disable_major_collections \in BOOLEAN
    /\ gc_lock = NoThread
    /\ interruption_lock = NoThread
    /\ suspend_lock = NoThread
    /\ entry = "none"
    /\ pc = "idle"
    /\ info = [t \in Threads |-> sgen_thread_register]
    /\ tstate = [t \in Threads |-> "running"]
    /\ loc = [t \in Threads |-> "safe"]
    /\ restart_count = 0
    /\ restarted_count = 0
    /\ num_threads_died = 0
    /\ count = 0
    /\ acks = 0
    /\ collector_attached = TRUE
    /\ precise_marking = FALSE
    /\ minor_result = FALSE
    /\ need_minor_collection = FALSE
    /\ world_stopped = FALSE
    /\ n_stop = 0
    /\ n_restart = 0
    /\ phases = <<>>
    /\ scanned_conservative = {}
    /\ scanned_precise = {}
    /\ attempted = {}
    /\ skipped_in_stop = {}

\* The collector started with a soft heap limit, or without one.
AllowInit ==
    /\ HeapInit
    /\ \E soft_limit \in SoftLimits : init_heap_size_limits(max_heap, soft_limit)

DrvParked ==
    /\ degraded_mode = 0
    /\ bytes_pinned_from_failed_allocation = 0
    /\ minor_collection_allowance = MIN_MINOR_COLLECTION_ALLOWANCE
    /\ minor_collection_sections_alloced = 0
    /\ num_major_sections = 0
    /\ los_memory_usage = 0
    /\ allocated_heap = 0
    /\ max_heap_size = mword_max
    /\ soft_heap_limit = mword_max
    /\ have_swept = FALSE
    /\ need_calculate_minor_collection_allowance = FALSE
    /\ last_collection_old_num_major_sections = 0
    /\ last_collection_los_memory_usage = 0
    /\ last_collection_old_los_memory_usage = 0
    /\ last_collection_los_memory_alloced = 0
    /\ trace = <<>>
    /\ asked = NoQuestion

\* The globals after a step, from the record the functions computed.
DrvCommit(g) ==
    /\ degraded_mode' = g.degraded_mode
    /\ bytes_pinned_from_failed_allocation' = g.bytes_pinned_from_failed_allocation
    /\ minor_collection_allowance' = g.minor_collection_allowance
    /\ minor_collection_sections_alloced' = g.minor_collection_sections_alloced
    /\ num_major_sections' = g.num_major_sections
    /\ los_memory_usage' = g.los_memory_usage
    /\ allocated_heap' = g.allocated_heap
    /\ have_swept' = g.have_swept
    /\ need_calculate_minor_collection_allowance' = g.need_calculate_minor_collection_allowance
    /\ last_collection_old_num_major_sections' = g.last_collection_old_num_major_sections
    /\ last_collection_los_memory_usage' = g.last_collection_los_memory_usage
    /\ last_collection_old_los_memory_usage' = g.last_collection_old_los_memory_usage
    /\ last_collection_los_memory_alloced' = g.last_collection_los_memory_alloced
    /\ trace' = g.trace
    /\ UNCHANGED <<max_heap_size, soft_heap_limit>>
    /\ UNCHANGED nonDrv

\* mono_gc_collect (generation): the result of collect_nursery is not looked at.
mono_gc_collect(generation) ==
    /\ \E g \in IF generation = 0
                THEN CollectNursery(DrvState)
                ELSE major_collection_from(DrvState, "user request") :
          DrvCommit(Mark(g, "restart_world"))
    /\ asked' = NoQuestion

mono_sgen_collect_nursery_no_lock ==
    /\ \E g \in CollectNursery(DrvState) :
          DrvCommit(Mark(g, "restart_world"))
    /\ asked' = NoQuestion

\* sgen_collect_major_no_lock (reason): called by the large-object and the
\* degraded allocators.
sgen_collect_major_no_lock ==
    /\ \E g \in major_collection_from(DrvState, "LOS overflow") :
          DrvCommit(Mark(g, "restart_world"))
    /\ asked' = NoQuestion

\* mono_sgen_can_alloc_size after the collections: there is no room in a nursery
\* without fragments; otherwise it depends on the size asked for.
CanAllocSize(g) == IF g.no_fragments THEN {FALSE} ELSE BOOLEAN

mutant_after_minor_collect(g, can_alloc) ==
    [g EXCEPT !.trace = Append(@, Event("allocate", "", can_alloc, 0, FALSE, 0))]

after_minor_collect(g, can_alloc) ==
    [g EXCEPT !.degraded_mode = IF can_alloc THEN @ ELSE 1,
              !.trace = Append(@, Event("allocate", "", can_alloc, 0, FALSE, 0))]

\* minor_collect_or_expand_inner (size): a minor, then a major when the minor asks
\* for one, then degraded mode when the size still cannot be allocated.
minor_collect_or_expand_inner ==
    /\ \E m \in CollectNursery(DrvState) :
       \E g \in IF m.ret THEN major_collection_from(m, "minor overflow") ELSE {m} :
       \E can_alloc \in CanAllocSize(g) :
          DrvCommit(after_minor_collect(Mark(g, "restart_world"), can_alloc))
    /\ asked' = NoQuestion

\* The mutator gets a major section (degraded or pinned allocation).
alloc_major_section ==
    /\ LET a == mono_sgen_try_alloc_space(DrvState, section_size)
       IN  /\ a.ret
           /\ DrvCommit(mono_sgen_register_major_sections_alloced(
                            [a EXCEPT !.num_major_sections = @ + 1], 1))
    /\ asked' = NoQuestion

\* The mutator allocates a large object.
los_alloc ==
    /\ LET a == mono_sgen_try_alloc_space(DrvState, los_object_size)
       IN  /\ a.ret
           /\ DrvCommit([a EXCEPT !.los_memory_usage = @ + los_object_size])
    /\ asked' = NoQuestion

\* A domain is unloaded and its large objects are freed outside a collection.
los_free_domain ==
    /\ los_memory_usage >= los_object_size
    /\ DrvCommit(mono_sgen_release_space(
                    [DrvState EXCEPT !.los_memory_usage = @ - los_object_size],
                    los_object_size))
    /\ asked' = NoQuestion

\* The major collector finishes a sweep it had left for later.
finish_sweep ==
    /\ ~have_swept
    /\ DrvCommit([DrvState EXCEPT !.have_swept = TRUE])
    /\ asked' = NoQuestion

SpacesNeeded == {section_size}

mono_sgen_need_major_collection(space_needed) ==
    /\ asked' = [space_needed |-> space_needed,
                 answer |-> need_major_collection(DrvState, space_needed)]
    /\ DrvCommit(DrvState)

NextDrv ==
    \/ \E generation \in {0, 1} : mono_gc_collect(generation)
    \/ mono_sgen_collect_nursery_no_lock
    \/ sgen_collect_major_no_lock
    \/ minor_collect_or_expand_inner
    \/ alloc_major_section
    \/ finish_sweep

\* The heuristic is exercised by the collections that the allocators ask for and
\* by their queries.
NextAllow ==
    \/ mono_sgen_collect_nursery_no_lock
    \/ sgen_collect_major_no_lock
    \/ alloc_major_section
    \/ los_alloc
    \/ los_free_domain
    \/ finish_sweep
    \/ \E space_needed \in SpacesNeeded : mono_sgen_need_major_collection(space_needed)

(***************************************************************************)
(* Part 6.  Registered roots: mono_gc_register_root,                       *)
(* mono_gc_register_root_wbarrier and mono_gc_deregister_root.             *)
(***************************************************************************)

ROOT_TYPE_NORMAL == 0

ROOT_TYPE_PINNED == 1

ROOT_TYPE_WBARRIER == 2

RootTypes == {ROOT_TYPE_NORMAL, ROOT_TYPE_PINNED, ROOT_TYPE_WBARRIER}

\* The start addresses, sizes and descriptors the runtime registers roots with.
RootStarts == {16, 32}

RootSizes == {4, 8}

RootDescrs == {NULL, 5}

NoRoot == [start |-> NULL, end_root |-> NULL, root_desc |-> NULL]

ROOT_TYPE_NUM == 3

\* The loop over the root types ran to its end without finding the start.
NoTable == ROOT_TYPE_NUM

\* a - b in mword arithmetic
mword_sub(a, b) == mword(a + (mword_max + 1) - b)

\* mono_sgen_hash_table_lookup (&roots_hash [i], start)
mono_sgen_hash_table_lookup(table, start) ==
    IF \E r \in table : r.start = start
    THEN CHOOSE r \in table : r.start = start
    ELSE NoRoot

\* mono_sgen_hash_table_replace (&roots_hash [root_type], start, &new_root)
mono_sgen_hash_table_replace(table, start, new_root) ==
    {r \in table : r.start # start} \cup {new_root}

\* mono_sgen_hash_table_remove (&roots_hash [root_type], addr, &root)
mono_sgen_hash_table_remove(table, addr) == {r \in table : r.start # addr}

\* The first table of the loop over root types that holds a record for start.
FoundIn(hash, start) ==
    LET hits == {i \in RootTypes : mono_sgen_hash_table_lookup(hash[i], start) # NoRoot}
    IN IF hits = {} THEN NoTable ELSE CHOOSE i \in hits : \A j \in hits : i <= j

NoRootCall == [op |-> "none", start |-> NULL, size |-> 0, descr |-> NULL,
           root_type |-> NoTable, found |-> NoTable]

NoTrip == [state |-> "none", start |-> NULL, before |-> 0, after |-> 0, again |-> FALSE]

\* The round trip in progress: opened by the registration of a start that is in
\* no table, kept open by further registrations of that start, closed by its
\* deregistration, forgotten when another start is registered or deregistered.
Trip(call_op, start, fresh, size_after) ==
    IF call_op = "register" /\ fresh
    THEN [state |-> "open", start |-> start, before |-> roots_size, after |-> 0,
          again |-> FALSE]
    ELSE IF round_trip.state = "open" /\ round_trip.start = start
    THEN IF call_op = "register"
         THEN [round_trip EXCEPT !.again = TRUE]
         ELSE [round_trip EXCEPT !.state = "closed", !.after = size_after]
    ELSE NoTrip

mutant_mono_gc_register_root_inner(start, size, descr, root_type) ==
    /\ ~root_aborted
    /\ roots_hash' = [roots_hash EXCEPT ![root_type] =
                        mono_sgen_hash_table_replace(@, start,
                            [start |-> start, end_root |-> start + size, root_desc |-> descr])]
    /\ roots_size' = mword(roots_size + size)
    /\ root_call' = [op |-> "register", start |-> start, size |-> size, descr |-> descr,
                     root_type |-> root_type, found |-> FoundIn(roots_hash, start)]
    /\ round_trip' = Trip("register", start, FoundIn(roots_hash, start) = NoTable,
                          roots_size')
    /\ UNCHANGED root_aborted
    /\ UNCHANGED nonRoots

\* mono_gc_register_root_inner, under the GC lock.  A start that is found in one
\* of the tables has its record changed in place; the g_assert on the two
\* descriptors sits between the update of end_root and that of root_desc and
\* ends the process when it fails.
mono_gc_register_root_inner(start, size, descr, root_type) ==
    /\ ~root_aborted
    /\ LET i == FoundIn(roots_hash, start)
           root == mono_sgen_hash_table_lookup(roots_hash[i], start)
           old_size == root.end_root - start
           resized == [root EXCEPT !.end_root = start + size]
           new_root == [start |-> start, end_root |-> start + size, root_desc |-> descr]
       IN /\ IF i # NoTable
             THEN IF (root.root_desc # 0 /\ descr # NULL) \/ (root.root_desc = 0 /\ descr = NULL)
                  THEN /\ roots_hash' = [roots_hash EXCEPT ![i] =
                              mono_sgen_hash_table_replace(@, start,
                                  [resized EXCEPT !.root_desc = descr])]
                       /\ roots_size' = mword_sub(mword(roots_size + size), old_size)
                       /\ UNCHANGED root_aborted
                  ELSE /\ roots_hash' = [roots_hash EXCEPT ![i] =
                              mono_sgen_hash_table_replace(@, start, resized)]
                       /\ root_aborted' = TRUE
                       /\ UNCHANGED roots_size
             ELSE /\ roots_hash' = [roots_hash EXCEPT ![root_type] =
                         mono_sgen_hash_table_replace(@, start, new_root)]
                  /\ roots_size' = mword(roots_size + size)
                  /\ UNCHANGED root_aborted
          /\ root_call' = [op |-> "register", start |-> start, size |-> size,
                           descr |-> descr, root_type |-> root_type, found |-> i]
          /\ round_trip' = Trip("register", start, i = NoTable, roots_size')
    /\ UNCHANGED nonRoots

\* mono_gc_register_root
mono_gc_register_root(start, size, descr) ==
    mono_gc_register_root_inner(start, size, descr,
        IF descr # NULL THEN ROOT_TYPE_NORMAL ELSE ROOT_TYPE_PINNED)

\* mono_gc_register_root_wbarrier
mono_gc_register_root_wbarrier(start, size, descr) ==
    mono_gc_register_root_inner(start, size, descr, ROOT_TYPE_WBARRIER)

\* The bytes the loop of mono_gc_deregister_root takes off roots_size: the size
\* of every record removed, over the root types from root_type on.
RECURSIVE removed_size(_, _, _)
removed_size(hash, addr, root_type) ==
    IF root_type >= ROOT_TYPE_NUM THEN 0
    ELSE LET root == mono_sgen_hash_table_lookup(hash[root_type], addr)
         IN (IF root # NoRoot THEN root.end_root - addr ELSE 0)
            + removed_size(hash, addr, root_type + 1)

mutant_mono_gc_deregister_root(addr) ==
    /\ ~root_aborted
    /\ roots_hash' = [root_type \in RootTypes |->
                        mono_sgen_hash_table_remove(roots_hash[root_type], addr)]
    /\ roots_size' = mword_sub(roots_size, addr)
    /\ root_call' = [NoRootCall EXCEPT !.op = "deregister", !.start = addr,
                                   !.found = FoundIn(roots_hash, addr)]
    /\ round_trip' = Trip("deregister", addr, FALSE, roots_size')
    /\ UNCHANGED root_aborted
    /\ UNCHANGED nonRoots

\* mono_gc_deregister_root, under the GC lock.
mono_gc_deregister_root(addr) ==
    /\ ~root_aborted
    /\ roots_hash' = [root_type \in RootTypes |->
                        mono_sgen_hash_table_remove(roots_hash[root_type], addr)]
    /\ roots_size' = mword_sub(roots_size, removed_size(roots_hash, addr, ROOT_TYPE_NORMAL))
    /\ root_call' = [NoRootCall EXCEPT !.op = "deregister", !.start = addr,
                                   !.found = FoundIn(roots_hash, addr)]
    /\ round_trip' = Trip("deregister", addr, FALSE, roots_size')
    /\ UNCHANGED root_aborted
    /\ UNCHANGED nonRoots

\* The static initializers of roots_hash and roots_size.
RootsInit ==
    /\ roots_hash = [root_type \in RootTypes |-> {}]
    /\ roots_size = 0
    /\ root_aborted = FALSE
    /\ root_call = NoRootCall
    /\ round_trip = NoTrip

RootsParked == RootsInit

NextRoots ==
    \/ \E start \in RootStarts, size \in RootSizes, descr \in RootDescrs :
         mono_gc_register_root(start, size, descr)
    \/ \E start \in RootStarts, size \in RootSizes, descr \in RootDescrs :
         mono_gc_register_root_wbarrier(start, size, descr)
    \/ \E addr \in RootStarts : mono_gc_deregister_root(addr)

(***************************************************************************)
(* Part 7.  Hidden pointers: HIDE_POINTER, REVEAL_POINTER and the weak     *)
(* link entry points.  Words are gulong, here of the width of mword.       *)
(***************************************************************************)

\* ~x
bit_not(x) == mword_max - x

\* x | b for a single low bit b
bit_or_low(x, b) == IF x % 2 = 1 THEN x ELSE x + b

\* x & ~3L
bit_clear_low2(x) == x - (x % 4)

\* #define HIDE_POINTER(p,t) ((gpointer)(~((gulong)(p)|((t)?1:0))))
HIDE_POINTER(p, t) == bit_not(bit_or_low(p, IF t THEN 1 ELSE 0))

mutant_REVEAL_POINTER(p) == bit_not(p)

\* #define REVEAL_POINTER(p) ((gpointer)((~(gulong)(p))&~3L))
REVEAL_POINTER(p) == bit_clear_low2(bit_not(p))

\* Object addresses: aligned to 4 bytes, at the low and at the high end of the
\* address space and in between.
LinkObjects ==
    {4 * k : k \in 1..40} \cup {mword_max - 3 - 4 * k : k \in 0..7} \cup {4096 + 4 * k : k \in 0..7}

NotCalled == [called |-> FALSE, word |-> 0, result |-> NULL]

\* mono_gc_weak_link_add: mono_gc_register_disappearing_link (obj, link_addr,
\* track, FALSE) stores the hidden pointer in the link.
mono_gc_weak_link_add(obj, track) ==
    /\ link_word' = HIDE_POINTER(obj, track)
    /\ hidden_object' = obj
    /\ hidden_track' = track
    /\ got' = NotCalled
    /\ UNCHANGED nonLinks

\* mono_gc_weak_link_remove: mono_gc_register_disappearing_link (NULL, ...)
\* stores NULL in the link.
mono_gc_weak_link_remove ==
    /\ link_word # 0
    /\ link_word' = 0
    /\ hidden_object' = NULL
    /\ hidden_track' = FALSE
    /\ got' = NotCalled
    /\ UNCHANGED nonLinks

\* mono_gc_weak_link_get
mono_gc_weak_link_get ==
    /\ ~got.called
    /\ got' = [called |-> TRUE, word |-> link_word,
               result |-> IF link_word = 0 THEN NULL ELSE REVEAL_POINTER(link_word)]
    /\ UNCHANGED <<link_word, hidden_object, hidden_track>>
    /\ UNCHANGED nonLinks

LinksInit ==
    /\ link_word = 0
    /\ hidden_object = NULL
    /\ hidden_track = FALSE
    /\ got = NotCalled

LinksParked == LinksInit

NextLinks ==
    \/ \E obj \in LinkObjects, track \in BOOLEAN : mono_gc_weak_link_add(obj, track)
    \/ mono_gc_weak_link_remove
    \/ mono_gc_weak_link_get

(***************************************************************************)
(* Part 8.  mono_gc_invoke_finalizers step by step: the two fin-ready      *)
(* lists as linked entries, callers that take the GC lock for each entry   *)
(* and run the finalizer outside it, and collections that push entries.    *)
(***************************************************************************)

\* A FinalizeReadyEntry: the entry allocated for object o is entry o; object is
\* NULL once the object was taken for finalization.
Entry(o) == [id |-> o, object |-> o]

NoEntry == [id |-> NULL, object |-> NULL]

\* has_critical_finalizer
has_critical_finalizer(o) == o \in critical_objects

EntryIds(list) == {list[i].id : i \in DOMAIN list}

\* The entries of a list whose object has not been taken.
Untaken(list) == {list[i].id : i \in {j \in DOMAIN list : list[j].object # NULL}}

\* The list without the entry: *list = entry->next, or e->next = entry->next
\* for the e in front of it.
unlink(list, id) == SelectSeq(list, LAMBDA e : e.id # id)

\* for (entry = list; entry && !entry->object; entry = entry->next) ;
first_ready(list) ==
    IF Untaken(list) = {} THEN NoEntry
    ELSE list[CHOOSE i \in DOMAIN list :
                 /\ list[i].object # NULL
                 /\ \A j \in 1..(i - 1) : list[j].object = NULL]

mutant_select_entry(ordinary, critical) ==
    IF first_ready(critical) # NoEntry
    THEN [entry |-> first_ready(critical), entry_is_critical |-> TRUE]
    ELSE [entry |-> first_ready(ordinary), entry_is_critical |-> FALSE]

\* "Now look for the first non-null entry": fin_ready_list first, critical_fin_list
\* only when that has none.
select_entry(ordinary, critical) ==
    IF first_ready(ordinary) # NoEntry
    THEN [entry |-> first_ready(ordinary), entry_is_critical |-> FALSE]
    ELSE [entry |-> first_ready(critical), entry_is_critical |-> TRUE]

\* entry->object = NULL
take(list, id) == [i \in DOMAIN list |-> IF list[i].id = id THEN [list[i] EXCEPT !.object = NULL]
                                          ELSE list[i]]

NotInvoking == [pc |-> "idle", entry |-> NULL, entry_is_critical |-> FALSE, count |-> 0,
                obj |-> NULL]

\* A collection (the world is stopped and the GC lock held for all of it) finds
\* object o ready for finalization: queue_finalization_entry puts a new entry
\* at the head of the list of its kind.
collection_queues(o) ==
    /\ gc_lock = NoThread
    /\ o \notin queued
    /\ IF has_critical_finalizer(o)
       THEN /\ critical_fin_list' = <<Entry(o)>> \o critical_fin_list
            /\ UNCHANGED fin_ready_list
       ELSE /\ fin_ready_list' = <<Entry(o)>> \o fin_ready_list
            /\ UNCHANGED critical_fin_list
    /\ num_ready_finalizers' = num_ready_finalizers + 1
    /\ queued' = queued \cup {o}
    /\ UNCHANGED <<gc_lock, inv, critical_objects, finalizer_runs, entry_frees, list_corrupt,
                   inv_result>>
    /\ UNCHANGED nonInv

\* mono_gc_invoke_finalizers is called.
invoke_finalizers_begin(t) ==
    /\ inv[t].pc = "idle"
    /\ inv' = [inv EXCEPT ![t] = [NotInvoking EXCEPT !.pc = "while"]]
    /\ inv_result' = [inv_result EXCEPT ![t] = [count |-> 0, ran |-> 0, open |-> TRUE]]
    /\ UNCHANGED <<gc_lock, fin_ready_list, critical_fin_list, num_ready_finalizers,
                   critical_objects, queued, finalizer_runs, entry_frees, list_corrupt>>
    /\ UNCHANGED nonInv

\* while (fin_ready_list || critical_fin_list), read without the lock.
invoke_finalizers_while(t) ==
    /\ inv[t].pc = "while"
    /\ inv' = [inv EXCEPT ![t].pc = IF fin_ready_list # <<>> \/ critical_fin_list # <<>>
                                    THEN "LOCK_GC" ELSE "return"]
    /\ UNCHANGED <<gc_lock, fin_ready_list, critical_fin_list, num_ready_finalizers,
                   critical_objects, queued, finalizer_runs, entry_frees, list_corrupt, inv_result>>
    /\ UNCHANGED nonInv

\* LOCK_GC
invoke_finalizers_lock(t) ==
    /\ inv[t].pc = "LOCK_GC"
    /\ gc_lock = NoThread
    /\ gc_lock' = t
    /\ inv' = [inv EXCEPT ![t].pc = "locked"]
    /\ UNCHANGED <<fin_ready_list, critical_fin_list, num_ready_finalizers,
                   critical_objects, queued, finalizer_runs, entry_frees, list_corrupt, inv_result>>
    /\ UNCHANGED nonInv

mutant_invoke_finalizers_section(t) ==
    /\ inv[t].pc = "locked"
    /\ gc_lock = t
    /\ LET mine == inv[t].entry
           in_list == mine \in EntryIds(IF inv[t].entry_is_critical THEN critical_fin_list
                                        ELSE fin_ready_list)
           ordinary == IF mine # NULL /\ ~inv[t].entry_is_critical
                       THEN unlink(fin_ready_list, mine) ELSE fin_ready_list
           critical == IF mine # NULL /\ inv[t].entry_is_critical
                       THEN unlink(critical_fin_list, mine) ELSE critical_fin_list
           found == select_entry(ordinary, critical)
           next_entry == found.entry
       IN /\ list_corrupt' = (list_corrupt \/ (mine # NULL /\ ~in_list))
          /\ entry_frees' = IF mine # NULL THEN [entry_frees EXCEPT ![mine] = @ + 1] ELSE entry_frees
          /\ IF next_entry # NoEntry
             THEN /\ num_ready_finalizers' = num_ready_finalizers - 1
                  /\ fin_ready_list' = IF found.entry_is_critical THEN ordinary
                                       ELSE ordinary
                  /\ critical_fin_list' = IF found.entry_is_critical
                                          THEN critical ELSE critical
                  /\ inv' = [inv EXCEPT ![t] = [@ EXCEPT !.pc = "run",
                                                         !.entry = next_entry.id,
                                                         !.entry_is_critical = found.entry_is_critical,
                                                         !.obj = next_entry.object]]
             ELSE /\ fin_ready_list' = ordinary
                  /\ critical_fin_list' = critical
                  /\ inv' = [inv EXCEPT ![t] = [@ EXCEPT !.pc = "return",
                                                         !.entry = NULL,
                                                         !.entry_is_critical = TRUE]]
                  /\ UNCHANGED num_ready_finalizers
    /\ gc_lock' = NoThread
    /\ UNCHANGED <<critical_objects, queued, finalizer_runs, inv_result>>
    /\ UNCHANGED nonInv

\* The body of the loop from LOCK_GC to UNLOCK_GC: the entry finalized in the last
\* iteration is unlinked from its list and entry_frees, the first entry that still has
\* its object is looked for, its object is taken, and the lock is released.
invoke_finalizers_section(t) ==
    /\ inv[t].pc = "locked"
    /\ gc_lock = t
    /\ LET mine == inv[t].entry
           in_list == mine \in EntryIds(IF inv[t].entry_is_critical THEN critical_fin_list
                                        ELSE fin_ready_list)
           ordinary == IF mine # NULL /\ ~inv[t].entry_is_critical
                       THEN unlink(fin_ready_list, mine) ELSE fin_ready_list
           critical == IF mine # NULL /\ inv[t].entry_is_critical
                       THEN unlink(critical_fin_list, mine) ELSE critical_fin_list
           found == select_entry(ordinary, critical)
           next_entry == found.entry
       IN /\ list_corrupt' = (list_corrupt \/ (mine # NULL /\ ~in_list))
          /\ entry_frees' = IF mine # NULL THEN [entry_frees EXCEPT ![mine] = @ + 1] ELSE entry_frees
          /\ IF next_entry # NoEntry
             THEN /\ num_ready_finalizers' = num_ready_finalizers - 1
                  /\ fin_ready_list' = IF found.entry_is_critical THEN ordinary
                                       ELSE take(ordinary, next_entry.id)
                  /\ critical_fin_list' = IF found.entry_is_critical
                                          THEN take(critical, next_entry.id) ELSE critical
                  /\ inv' = [inv EXCEPT ![t] = [@ EXCEPT !.pc = "run",
                                                         !.entry = next_entry.id,
                                                         !.entry_is_critical = found.entry_is_critical,
                                                         !.obj = next_entry.object]]
             ELSE /\ fin_ready_list' = ordinary
                  /\ critical_fin_list' = critical
                  /\ inv' = [inv EXCEPT ![t] = [@ EXCEPT !.pc = "return",
                                                         !.entry = NULL,
                                                         !.entry_is_critical = TRUE]]
                  /\ UNCHANGED num_ready_finalizers
    /\ gc_lock' = NoThread
    /\ UNCHANGED <<critical_objects, queued, finalizer_runs, inv_result>>
    /\ UNCHANGED nonInv

\* count++; mono_gc_run_finalize (obj, NULL)
invoke_finalizers_run(t) ==
    /\ inv[t].pc = "run"
    /\ inv' = [inv EXCEPT ![t] = [@ EXCEPT !.pc = "while", !.count = @ + 1, !.obj = NULL]]
    /\ finalizer_runs' = [finalizer_runs EXCEPT ![inv[t].obj] = @ + 1]
    /\ inv_result' = [inv_result EXCEPT ![t].ran = @ + 1]
    /\ UNCHANGED <<gc_lock, fin_ready_list, critical_fin_list, num_ready_finalizers,
                   critical_objects, queued, entry_frees, list_corrupt>>
    /\ UNCHANGED nonInv

\* g_assert (!entry); return count;
invoke_finalizers_return(t) ==
    /\ inv[t].pc = "return"
    /\ inv[t].entry = NULL
    /\ inv' = [inv EXCEPT ![t] = NotInvoking]
    /\ inv_result' = [inv_result EXCEPT ![t] = [@ EXCEPT !.count = inv[t].count, !.open = FALSE]]
    /\ UNCHANGED <<gc_lock, fin_ready_list, critical_fin_list, num_ready_finalizers,
                   critical_objects, queued, finalizer_runs, entry_frees, list_corrupt>>
    /\ UNCHANGED nonInv

\* No entry is queued and nobody is in mono_gc_invoke_finalizers; the classes
\* of objects 2 and 3 may derive from the critical-finalizer class.
InvInit ==
    /\ critical_fin_list = <<>>
    /\ inv = [t \in Threads |-> NotInvoking]
    /\ critical_objects \in {{}, {2}, {2, 3}}
    /\ queued = {}
    /\ finalizer_runs = [o \in Objects |-> 0]
    /\ entry_frees = [o \in Objects |-> 0]
    /\ list_corrupt = FALSE
    /\ inv_result = [t \in Threads |-> [count |-> 0, ran |-> 0, open |-> FALSE]]

InvParked ==
    /\ critical_fin_list = <<>>
    /\ inv = [t \in Threads |-> NotInvoking]
    /\ critical_objects = {}
    /\ queued = {}
    /\ finalizer_runs = [o \in Objects |-> 0]
    /\ entry_frees = [o \in Objects |-> 0]
    /\ list_corrupt = FALSE
    /\ inv_result = [t \in Threads |-> [count |-> 0, ran |-> 0, open |-> FALSE]]

NextInv ==
    \/ \E o \in Objects : collection_queues(o)
    \/ \E t \in Threads : invoke_finalizers_begin(t)
    \/ \E t \in Threads : invoke_finalizers_while(t)
    \/ \E t \in Threads : invoke_finalizers_lock(t)
    \/ \E t \in Threads : invoke_finalizers_section(t)
    \/ \E t \in Threads : invoke_finalizers_run(t)
    \/ \E t \in Threads : invoke_finalizers_return(t)

(***************************************************************************)
(* Part 9.  The users of the interruption mutex and of the thread-info     *)
(* suspend lock: stop_world and restart_world inside a collection, and     *)
(* mono_gc_invoke_with_gc_lock.  Every thread runs the lock operations of  *)
(* the function it is in one at a time; a suspended thread takes no step.  *)
(***************************************************************************)

mutant_acquire_gc_locks == <<"mono_thread_info_suspend_lock", "LOCK_INTERRUPTION">>

\* acquire_gc_locks
acquire_gc_locks == <<"LOCK_INTERRUPTION", "mono_thread_info_suspend_lock">>

\* release_gc_locks
release_gc_locks == <<"mono_thread_info_suspend_unlock", "UNLOCK_INTERRUPTION">>

\* stop_world: the locks are taken before the other threads are suspended.
stop_world_ops == acquire_gc_locks \o <<"mono_sgen_thread_handshake TRUE">>

\* restart_world: the locks are released before the other threads are resumed.
restart_world_ops == release_gc_locks \o <<"mono_sgen_thread_handshake FALSE">>

\* A collection from one of its entry points: the GC lock is held around
\* stop_world, the collection and restart_world.
collection_ops ==
    <<"LOCK_GC">> \o stop_world_ops \o <<"collect">> \o restart_world_ops \o <<"UNLOCK_GC">>

\* mono_gc_invoke_with_gc_lock; the callback func takes none of the three locks.
mono_gc_invoke_with_gc_lock == <<"LOCK_INTERRUPTION", "func", "UNLOCK_INTERRUPTION">>

\* An API function that works under the GC lock without collecting.
locked_call_ops == <<"LOCK_GC", "call", "UNLOCK_GC">>

LockOps == {"LOCK_GC", "LOCK_INTERRUPTION", "mono_thread_info_suspend_lock"}

UnlockOps == {"UNLOCK_GC", "UNLOCK_INTERRUPTION", "mono_thread_info_suspend_unlock"}

\* The mutex a lock or unlock operation works on.
MutexOf(op) ==
    IF op \in {"LOCK_GC", "UNLOCK_GC"} THEN "gc"
    ELSE IF op \in {"LOCK_INTERRUPTION", "UNLOCK_INTERRUPTION"} THEN "interruption"
    ELSE "suspend"

Owner(mutex) ==
    IF mutex = "gc" THEN gc_lock
    ELSE IF mutex = "interruption" THEN interruption_lock
    ELSE suspend_lock

\* The three mutexes after mutex got the owner t.
SetOwner(mutex, t) ==
    /\ gc_lock' = IF mutex = "gc" THEN t ELSE gc_lock
    /\ interruption_lock' = IF mutex = "interruption" THEN t ELSE interruption_lock
    /\ suspend_lock' = IF mutex = "suspend" THEN t ELSE suspend_lock

\* The operation thread t is at.
NextOp(t) == IF lprog[t] = <<>> THEN "none" ELSE Head(lprog[t])

Runs(t) == t \notin suspended /\ lprog[t] # <<>>

\* A thread enters a collection, mono_gc_invoke_with_gc_lock or a call under
\* the GC lock.
lock_user_begin(t, fn) ==
    /\ t \notin suspended
    /\ lprog[t] = <<>>
    /\ lprog' = [lprog EXCEPT ![t] = IF fn = "collection" THEN collection_ops
                                     ELSE IF fn = "mono_gc_invoke_with_gc_lock"
                                          THEN mono_gc_invoke_with_gc_lock
                                          ELSE locked_call_ops]
    /\ lfn' = [lfn EXCEPT ![t] = fn]
    /\ UNCHANGED <<gc_lock, interruption_lock, suspend_lock, suspended>>
    /\ UNCHANGED nonLocks

\* mono_mutex_lock: the thread waits until the mutex is free.
lock_acquire(t) ==
    /\ Runs(t)
    /\ NextOp(t) \in LockOps
    /\ Owner(MutexOf(NextOp(t))) = NoThread
    /\ SetOwner(MutexOf(NextOp(t)), t)
    /\ lprog' = [lprog EXCEPT ![t] = Tail(@)]
    /\ UNCHANGED <<lfn, suspended>>
    /\ UNCHANGED nonLocks

\* mono_mutex_unlock
lock_release(t) ==
    /\ Runs(t)
    /\ NextOp(t) \in UnlockOps
    /\ SetOwner(MutexOf(NextOp(t)), NoThread)
    /\ lprog' = [lprog EXCEPT ![t] = Tail(@)]
    /\ lfn' = [lfn EXCEPT ![t] = IF Len(lprog[t]) = 1 THEN "none" ELSE @]
    /\ UNCHANGED suspended
    /\ UNCHANGED nonLocks

\* mono_sgen_thread_handshake (TRUE) suspends every other thread, wherever it
\* is; mono_sgen_thread_handshake (FALSE) resumes them.
lock_handshake(t) ==
    /\ Runs(t)
    /\ NextOp(t) \in {"mono_sgen_thread_handshake TRUE", "mono_sgen_thread_handshake FALSE"}
    /\ suspended' = IF NextOp(t) = "mono_sgen_thread_handshake TRUE" THEN Threads \ {t}
                    ELSE {}
    /\ lprog' = [lprog EXCEPT ![t] = Tail(@)]
    /\ UNCHANGED <<gc_lock, interruption_lock, suspend_lock, lfn>>
    /\ UNCHANGED nonLocks

\* The collection itself, the callback func, or the work of a call under the
\* GC lock.
lock_user_body(t) ==
    /\ Runs(t)
    /\ NextOp(t) \in {"collect", "func", "call"}
    /\ lprog' = [lprog EXCEPT ![t] = Tail(@)]
    /\ UNCHANGED <<gc_lock, interruption_lock, suspend_lock, lfn, suspended>>
    /\ UNCHANGED nonLocks

LockFns == {"collection", "mono_gc_invoke_with_gc_lock", "locked_call"}

\* No thread is in any of the functions and no mutex is held.
LocksInit ==
    /\ gc_lock = NoThread
    /\ interruption_lock = NoThread
    /\ suspend_lock = NoThread
    /\ lprog = [t \in Threads |-> <<>>]
    /\ lfn = [t \in Threads |-> "none"]
    /\ suspended = {}

LocksParked ==
    /\ lprog = [t \in Threads |-> <<>>]
    /\ lfn = [t \in Threads |-> "none"]
    /\ suspended = {}

NextLocks ==
    \/ \E t \in Threads, fn \in LockFns : lock_user_begin(t, fn)
    \/ \E t \in Threads : lock_acquire(t)
    \/ \E t \in Threads : lock_release(t)
    \/ \E t \in Threads : lock_handshake(t)
    \/ \E t \in Threads : lock_user_body(t)

\* What each of Parts 10 and later leaves alone.
nonSort == <<coreVars, rootVars, linkVars, bridgeVars, invVars, lockVars, pinVars, losVars, boundsVars, domainVars, baseinitVars>>

nonPin == <<coreVars, rootVars, linkVars, bridgeVars, invVars, lockVars, sortVars, losVars, boundsVars, domainVars, baseinitVars>>

nonLos == <<coreVars, rootVars, linkVars, bridgeVars, invVars, lockVars, sortVars, pinVars, boundsVars, domainVars, baseinitVars>>

nonBounds == <<coreVars, rootVars, linkVars, bridgeVars, invVars, lockVars, sortVars, pinVars, losVars, domainVars, baseinitVars>>

nonDomain == <<coreVars, rootVars, linkVars, bridgeVars, invVars, lockVars, sortVars, pinVars, losVars, boundsVars, baseinitVars>>

nonBaseInit == <<coreVars, rootVars, linkVars, bridgeVars, invVars, lockVars, sortVars, pinVars, losVars, boundsVars, domainVars>>

\* (Parts 10 and later follow.)

(***************************************************************************)
(* Part 10.  mono_sgen_sort_addresses: the heap sort of the pin queue.     *)
(* An array is a function on 0 .. length - 1, as in the source; the loops  *)
(* are recursive operators that count their iterations.                    *)
(***************************************************************************)

\* The longest array handed to the sort, and the addresses it can hold.
MaxArray == 4

SortAddresses == {nursery_start, nursery_start + 1, FirstOldCell}

ArraysOf(n) == [0..(n - 1) -> SortAddresses]

\* tmp = array [i]; array [i] = array [j]; array [j] = tmp;
swap(st, i, j) ==
    [st EXCEPT !.array = [st.array EXCEPT ![i] = st.array[j], ![j] = st.array[i]],
               !.steps = @ + 1]

\* while (child > 0): the new element goes up while its parent is smaller.
RECURSIVE sift_up(_, _)
sift_up(st, child) ==
    IF child > 0
    THEN LET parent == (child - 1) \div 2
         IN IF st.array[parent] >= st.array[child]
            THEN [st EXCEPT !.steps = @ + 1]
            ELSE sift_up(swap(st, parent, child), parent)
    ELSE st

\* for (i = 1; i < size; ++i)
RECURSIVE build_heap(_, _, _)
build_heap(st, i, size) ==
    IF i < size THEN build_heap(sift_up(st, i), i + 1, size) ELSE st

\* while (root * 2 + 1 <= end): the root goes down below its larger child.
RECURSIVE sift_down(_, _, _)
sift_down(st, root, end) ==
    IF root * 2 + 1 <= end
    THEN LET first == root * 2 + 1
             child == IF first < end /\ st.array[first] < st.array[first + 1]
                      THEN first + 1 ELSE first
         IN IF st.array[root] >= st.array[child]
            THEN [st EXCEPT !.steps = @ + 1]
            ELSE sift_down(swap(st, root, child), child, end)
    ELSE st

\* for (i = size - 1; i > 0; --i): the largest element goes behind the heap.
RECURSIVE extract_max(_, _)
extract_max(st, i) ==
    IF i > 0 THEN extract_max(sift_down(swap(st, i, 0), 0, i - 1), i - 1) ELSE st

mutant_mono_sgen_sort_addresses(array, size) ==
    build_heap([array |-> array, steps |-> 0], 1, size)

\* mono_sgen_sort_addresses (array, size)
mono_sgen_sort_addresses(array, size) ==
    extract_max(build_heap([array |-> array, steps |-> 0], 1, size), size - 1)

NoSort == [array |-> <<>>, size |-> 0, called |-> FALSE]

NotSorted == [array |-> <<>>, steps |-> 0, returned |-> FALSE]

\* The caller sorts the first size entries of its array.
sort_addresses_call ==
    /\ sort_input.called
    /\ ~sort_output.returned
    /\ LET st == mono_sgen_sort_addresses(sort_input.array, sort_input.size)
       IN sort_output' = [array |-> st.array, steps |-> st.steps, returned |-> TRUE]
    /\ UNCHANGED sort_input
    /\ UNCHANGED nonSort

\* Any array of at most MaxArray addresses, of which the first size are to be
\* sorted.
SortInit ==
    /\ \E n \in 0..MaxArray : \E a \in ArraysOf(n) : \E size \in 0..n :
          sort_input = [array |-> a, size |-> size, called |-> TRUE]
    /\ sort_output = NotSorted

SortParked ==
    /\ sort_input = NoSort
    /\ sort_output = NotSorted

NextSort == sort_addresses_call

(***************************************************************************)
(* Part 11.  pin_objects_from_addresses on a section whose memory holds    *)
(* objects of different sizes, fragment-fill placeholders and zeroed gaps. *)
(* The section is the nursery; its memory is described slot by slot, a     *)
(* slot being ALLOC_ALIGN address units.                                   *)
(***************************************************************************)

\* The longest array of candidate addresses of the section.
MaxPinQueue == 3

SectionSlots == {a \in nursery_start..(nursery_end - 1) : a % ALLOC_ALIGN = 0}

\* What starts at a slot: zeroed memory, an object (its vtable word is set), a
\* fill placeholder (synchronisation == -1), or the inside of the item before.
Zeroed == [kind |-> "zero", size |-> ALLOC_ALIGN]

Inside == [kind |-> "inside", size |-> ALLOC_ALIGN]

SlotContents ==
    {Zeroed, Inside}
       \cup {[kind |-> "object", size |-> s] : s \in {ALLOC_ALIGN, ALLOC_ALIGN + 1}}
       \cup {[kind |-> "fill", size |-> s] : s \in {ALLOC_ALIGN, 2 * ALLOC_ALIGN}}

\* The memory of a section the allocator can leave: items follow each other
\* without overlap up to the end of the section.
SectionMemories ==
    {memory \in [SectionSlots -> SlotContents] :
        /\ memory[nursery_start] # Inside
        /\ \A a \in SectionSlots :
             /\ (memory[a] \notin {Zeroed, Inside} /\ ALIGN_UP(memory[a].size) > ALLOC_ALIGN)
                   => (a + ALLOC_ALIGN \in SectionSlots /\ memory[a + ALLOC_ALIGN] = Inside)
             /\ memory[a] = Inside
                   => (/\ memory[a - ALLOC_ALIGN] \notin {Zeroed, Inside}
                       /\ ALIGN_UP(memory[a - ALLOC_ALIGN].size) > ALLOC_ALIGN)}

\* The first item that starts in each chunk of SCAN_START_SIZE units.
FirstInChunk(memory, idx) ==
    LET in_chunk == {a \in SectionSlots : /\ memory[a].kind \in {"object", "fill"}
                                          /\ (a - nursery_start) \div SCAN_START_SIZE = idx}
    IN IF in_chunk = {} THEN NULL ELSE CHOOSE a \in in_chunk : \A b \in in_chunk : a <= b

Chunks == 0..((nursery_size \div SCAN_START_SIZE) - 1)

\* The non-decreasing arrays of n addresses of the section.
SortedArrays(n) ==
    {a \in [0..(n - 1) -> nursery_start..(nursery_end - 1)] :
        \A i \in 0..(n - 2) : a[i] <= a[i + 1]}

\* The do-while loop of pin_objects_from_addresses: from search_start to the
\* object that holds addr, over zeroed words, placeholders and objects.
RECURSIVE walk_to_object(_, _, _, _, _)
walk_to_object(memory, addr, search_start, last_obj, last_obj_size) ==
    IF memory[search_start].kind = "inside"
    THEN [found |-> NULL, last_obj |-> last_obj, last_obj_size |-> last_obj_size,
          strayed |-> TRUE]
    ELSE IF memory[search_start].kind = "zero"
    THEN LET next == ALIGN_UP(search_start + 1)
         IN IF next <= addr
            THEN walk_to_object(memory, addr, next, last_obj, last_obj_size)
            ELSE [found |-> NULL, last_obj |-> last_obj, last_obj_size |-> last_obj_size,
                  strayed |-> FALSE]
    ELSE LET size == ALIGN_UP(memory[search_start].size)
         IN IF /\ memory[search_start].kind # "fill"
               /\ addr >= search_start
               /\ addr < search_start + size
            THEN [found |-> search_start, last_obj |-> search_start,
                  last_obj_size |-> size, strayed |-> FALSE]
            ELSE IF search_start + size <= addr
                 THEN walk_to_object(memory, addr, search_start + size, search_start, size)
                 ELSE [found |-> NULL, last_obj |-> search_start, last_obj_size |-> size,
                       strayed |-> FALSE]

\* search_start = section->scan_starts [idx], or an earlier entry, or the start
\* of the section, and never before the end of the last object.
search_start_of(sec, addr, start_nursery, last_obj, last_obj_size) ==
    LET idx == (addr - nursery_start) \div SCAN_START_SIZE
        usable == {i \in 0..idx : sec.scan_starts[i] # NULL /\ sec.scan_starts[i] <= addr}
        first == sec.scan_starts[idx]
        from_table == IF first # NULL /\ first <= addr THEN first
                      ELSE IF usable = {} THEN start_nursery
                      ELSE sec.scan_starts[CHOOSE i \in usable : \A j \in usable : j <= i]
    IN IF from_table < last_obj THEN last_obj + last_obj_size ELSE from_table

mutant_pin_addresses(sec, st, start, end_index, start_nursery, end_nursery) ==
    [st EXCEPT !.count = 0]

\* pin_objects_from_addresses: while (start < end).  st holds the array, count
\* and the locals last, last_obj and last_obj_size, with what was pinned and
\* enqueued so far.
RECURSIVE pin_addresses(_, _, _, _, _, _)
pin_addresses(sec, st, start, end_index, start_nursery, end_nursery) ==
    IF start < end_index
    THEN LET addr == st.array[start]
         IN IF addr # st.last /\ addr >= start_nursery /\ addr < end_nursery
            THEN IF addr >= st.last_obj /\ addr < st.last_obj + st.last_obj_size
                 THEN pin_addresses(sec, st, start + 1, end_index, start_nursery, end_nursery)
                 ELSE LET r == walk_to_object(sec.mem, addr,
                                   search_start_of(sec, addr, start_nursery,
                                                   st.last_obj, st.last_obj_size),
                                   st.last_obj, st.last_obj_size)
                          seen == [st EXCEPT !.last = addr,
                                             !.last_obj = r.last_obj,
                                             !.last_obj_size = r.last_obj_size,
                                             !.strayed = @ \/ r.strayed]
                          pinned == [seen EXCEPT !.array[st.count] = r.found,
                                                 !.count = @ + 1,
                                                 !.pinned = @ \cup {r.found},
                                                 !.gray = Append(@, r.found)]
                      IN pin_addresses(sec, IF r.found # NULL THEN pinned ELSE seen,
                                       start + 1, end_index, start_nursery, end_nursery)
            ELSE pin_addresses(sec, st, start + 1, end_index, start_nursery, end_nursery)
    ELSE st

NotPinned == [called |-> FALSE, count |-> 0, pinned |-> {}, gray |-> <<>>,
              strayed |-> FALSE]

\* mono_sgen_pin_objects_in_section (section, queue)
mono_sgen_pin_objects_in_section ==
    /\ pin_section.mem # <<>>
    /\ ~pin_outcome.called
    /\ LET num_entries == pin_section.pin_queue_num_entries
           st == pin_addresses(pin_section,
                               [array |-> pin_section.pin_queue, count |-> 0,
                                pinned |-> {}, gray |-> <<>>, last |-> NULL,
                                last_obj |-> NULL, last_obj_size |-> 0,
                                strayed |-> FALSE],
                               0, num_entries, nursery_start, nursery_end)
       IN IF num_entries # 0
          THEN /\ pin_section' = [pin_section EXCEPT
                                     !.pin_queue = st.array,
                                     !.pin_queue_num_entries = st.count,
                                     !.pin_queue_start = IF st.count = 0 THEN FALSE ELSE @]
               /\ pin_outcome' = [called |-> TRUE, count |-> st.count,
                                  pinned |-> st.pinned, gray |-> st.gray,
                                  strayed |-> st.strayed]
          ELSE /\ pin_outcome' = [NotPinned EXCEPT !.called = TRUE]
               /\ UNCHANGED pin_section
    /\ UNCHANGED pin_before
    /\ UNCHANGED nonPin

NoSection == [mem |-> <<>>, scan_starts |-> <<>>, pin_queue |-> <<>>,
              pin_queue_num_entries |-> 0, pin_queue_start |-> FALSE]

\* A section with its sorted slice of the pin queue; every scan start is either
\* unset or the first item of its chunk.
PinInit ==
    /\ \E memory \in SectionMemories : \E known \in SUBSET Chunks :
       \E n \in 0..MaxPinQueue : \E q \in SortedArrays(n) :
          pin_section = [mem |-> memory,
                         scan_starts |-> [i \in Chunks |->
                                            IF i \in known THEN FirstInChunk(memory, i)
                                            ELSE NULL],
                         pin_queue |-> q,
                         pin_queue_num_entries |-> n,
                         pin_queue_start |-> TRUE]
    /\ pin_before = pin_section
    /\ pin_outcome = NotPinned

PinParked ==
    /\ pin_section = NoSection
    /\ pin_before = NoSection
    /\ pin_outcome = NotPinned

NextPin == mono_sgen_pin_objects_in_section

(***************************************************************************)
(* Part 12.  The large objects in a major collection: pinning from the pin *)
(* queue, marking from a root and through the gray stack, and the sweep of *)
(* los_object_list.                                                        *)
(***************************************************************************)

\* The large objects the mutator can have allocated.
LosIds == {1, 2, 3}

\* bigobj->data and bigobj->size: the objects lie los_object_size apart.
LosData(o) == o * 2 * los_object_size

LosSize(o) == los_object_size

\* The addresses a conservative scan can have staged: the first and the last
\* word of a large object and the word behind it.
LosCandidates ==
    UNION {{LosData(o), LosData(o) + LosSize(o) - 1, LosData(o) + LosSize(o)} : o \in LosIds}

NoLosObject == [allocated |-> FALSE, pinned |-> FALSE, field |-> NULL]

\* mono_sgen_update_heap_boundaries (low, high) as the collector runs it while the
\* world is stopped and no other caller runs.
update_heap_boundaries_alone(b, low, high) ==
    [lowest |-> MIN(b.lowest, low), highest |-> MAX(b.highest, high)]

\* The loop over los_object_list of major_do_collection that pins from the pin
\* queue: st holds the objects and the gray stack, i the position in the list.
RECURSIVE pin_big_objects(_, _, _, _)
pin_big_objects(st, list, queue, i) ==
    IF i <= Len(list)
    THEN LET bigobj == list[i]
             \* mono_sgen_find_optimized_pin_queue_area (data, data + size, &dummy)
             found == \E k \in DOMAIN queue : /\ queue[k] >= LosData(bigobj)
                                              /\ queue[k] < LosData(bigobj) + LosSize(bigobj)
         IN pin_big_objects(IF found
                            THEN [st EXCEPT !.objects[bigobj].pinned = TRUE,
                                            !.gray = Append(@, bigobj)]
                            ELSE st,
                            list, queue, i + 1)
    ELSE st

\* major_collector.copy_or_mark_object on a large object: it is marked with the
\* pinned flag and enqueued unless it is marked already.
los_mark_object(st, obj) ==
    IF obj = NULL \/ st.objects[obj].pinned THEN st
    ELSE [st EXCEPT !.objects[obj].pinned = TRUE, !.gray = Append(@, obj)]

mutant_sweep_big_objects(st, i) ==
    [st EXCEPT !.list = SelectSeq(st.list, LAMBDA o : st.objects[o].pinned),
               !.freed = {st.list[k] : k \in DOMAIN st.list} \ 
                            {o \in LosIds : st.objects[o].pinned},
               !.objects = [o \in LosIds |->
                               IF st.objects[o].pinned THEN st.objects[o] ELSE NoLosObject]]

\* The sweep of the big objects list: a pinned object is unpinned and stays, any
\* other is unlinked and freed.  i is the position of bigobj in the list.
RECURSIVE sweep_big_objects(_, _)
sweep_big_objects(st, i) ==
    IF i <= Len(st.list)
    THEN LET bigobj == st.list[i]
         IN IF st.objects[bigobj].pinned
            THEN sweep_big_objects(
                    [st EXCEPT !.objects[bigobj].pinned = FALSE,
                               !.bounds = update_heap_boundaries_alone(
                                             @, LosData(bigobj),
                                             LosData(bigobj) + LosSize(bigobj))],
                    i + 1)
            ELSE sweep_big_objects(
                    [st EXCEPT !.list = SubSeq(st.list, 1, i - 1)
                                           \o SubSeq(st.list, i + 1, Len(st.list)),
                               !.objects[bigobj] = NoLosObject,
                               !.freed = @ \cup {bigobj}],
                    i)
    ELSE st

\* reset_heap_boundaries ()
ResetBounds == [lowest |-> mword_max, highest |-> 0]

NoLosTrace == [pinned_from_queue |-> {}, enqueued_from_queue |-> <<>>,
               marked |-> {}, freed |-> {}, bounds |-> ResetBounds]

\* "Pinning from large objects"
los_pin_from_queue ==
    /\ los_pc = "pin_large_objects"
    /\ LET st == pin_big_objects([objects |-> los_objects, gray |-> los_gray],
                                 los_object_list, los_in.pin_queue, 1)
       IN /\ los_objects' = st.objects
          /\ los_gray' = st.gray
          /\ los_trace' = [los_trace EXCEPT
                              !.pinned_from_queue = {o \in LosIds : st.objects[o].pinned},
                              !.enqueued_from_queue = st.gray]
    /\ los_pc' = "scan_roots"
    /\ UNCHANGED <<los_object_list, los_in>>
    /\ UNCHANGED nonLos

\* job_scan_from_registered_roots: the referent of the root is marked.
los_scan_roots ==
    /\ los_pc = "scan_roots"
    /\ LET st == los_mark_object([objects |-> los_objects, gray |-> los_gray], los_in.root)
       IN /\ los_objects' = st.objects
          /\ los_gray' = st.gray
    /\ los_pc' = "finish_gray_stack"
    /\ UNCHANGED <<los_object_list, los_in, los_trace>>
    /\ UNCHANGED nonLos

\* finish_gray_stack: one object is taken from the gray stack and scanned.
los_drain_gray_stack ==
    /\ los_pc = "finish_gray_stack"
    /\ los_gray # <<>>
    /\ LET obj == los_gray[Len(los_gray)]
           st == los_mark_object([objects |-> los_objects,
                                  gray |-> SubSeq(los_gray, 1, Len(los_gray) - 1)],
                                 los_objects[obj].field)
       IN /\ los_objects' = st.objects
          /\ los_gray' = st.gray
    /\ UNCHANGED <<los_pc, los_object_list, los_in, los_trace>>
    /\ UNCHANGED nonLos

\* finish_gray_stack returns when the gray stack is empty.
los_finish_gray_stack ==
    /\ los_pc = "finish_gray_stack"
    /\ los_gray = <<>>
    /\ los_pc' = "sweep"
    /\ los_trace' = [los_trace EXCEPT !.marked = {o \in LosIds : los_objects[o].pinned}]
    /\ UNCHANGED <<los_object_list, los_objects, los_gray, los_in>>
    /\ UNCHANGED nonLos

\* reset_heap_boundaries, the call of mono_sgen_update_heap_boundaries for the
\* nursery, and "sweep the big objects list".
los_sweep ==
    /\ los_pc = "sweep"
    /\ LET st == sweep_big_objects(
                    [list |-> los_object_list, objects |-> los_objects, freed |-> {},
                     bounds |-> update_heap_boundaries_alone(ResetBounds, nursery_start,
                                                             nursery_end)], 1)
       IN /\ los_object_list' = st.list
          /\ los_objects' = st.objects
          /\ los_trace' = [los_trace EXCEPT !.freed = st.freed, !.bounds = st.bounds]
    /\ los_pc' = "done"
    /\ UNCHANGED <<los_gray, los_in>>
    /\ UNCHANGED nonLos

\* The lists of distinct large objects.
LosLists ==
    UNION {{l \in [1..n -> LosIds] : \A i, j \in 1..n : l[i] = l[j] => i = j} :
              n \in 0..Cardinality(LosIds)}

\* A major collection starts: no large object is pinned, references lead to
\* large objects of the list, the pin queue is sorted.
LosInit ==
    /\ los_pc = "pin_large_objects"
    /\ los_object_list \in {l \in LosLists : \A i \in 1..(Len(l) - 1) : l[i] > l[i + 1]}
    /\ LET listed == {los_object_list[i] : i \in DOMAIN los_object_list}
       IN /\ \E f \in [listed -> listed \cup {NULL}] :
               los_objects = [o \in LosIds |->
                                 IF o \in listed
                                 THEN [allocated |-> TRUE, pinned |-> FALSE, field |-> f[o]]
                                 ELSE NoLosObject]
          /\ \E root \in listed \cup {NULL} :
             \E staged \in {s \in SUBSET LosCandidates : Cardinality(s) <= MaxPinQueue} :
                los_in = [pin_queue |-> SortedSeq(staged), root |-> root,
                          list |-> los_object_list]
    /\ los_gray = <<>>
    /\ los_trace = NoLosTrace

LosParked ==
    /\ los_pc = "idle"
    /\ los_object_list = <<>>
    /\ los_objects = [o \in LosIds |-> NoLosObject]
    /\ los_gray = <<>>
    /\ los_in = [pin_queue |-> <<>>, root |-> NULL, list |-> <<>>]
    /\ los_trace = NoLosTrace

NextLos ==
    \/ los_pin_from_queue
    \/ los_scan_roots
    \/ los_drain_gray_stack
    \/ los_finish_gray_stack
    \/ los_sweep

(***************************************************************************)
(* Part 13.  The heap boundaries: reset_heap_boundaries and the two        *)
(* compare-and-swap loops of mono_sgen_update_heap_boundaries, run by      *)
(* several threads at once.                                                *)
(***************************************************************************)

\* The large object whose range is announced.
BoundedLos == {CHOOSE o \in LosIds : \A p \in LosIds : o <= p}

LosRange(o) == <<LosData(o), LosData(o) + LosSize(o)>>

NurseryRange == <<nursery_start, nursery_end>>

\* The ranges (low, high) a caller can announce: the nursery or a large object.
HeapRanges == {NurseryRange} \cup {LosRange(o) : o \in BoundedLos}

NotCalling == [pc |-> "idle", low |-> 0, high |-> 0, old |-> 0]

NoMajor == [collector |-> NoThread, todo |-> <<>>, survivors |-> {}]

\* A thread calls mono_sgen_update_heap_boundaries (low, high); while a major
\* collection runs only its thread does, with the ranges of the collection.
update_heap_boundaries_call(t) ==
    /\ hb_thread[t].pc = "idle"
    /\ \E r \in HeapRanges :
         /\ IF hb_major.collector = NoThread
            THEN UNCHANGED hb_major
            ELSE /\ t = hb_major.collector
                 /\ hb_major.todo # <<>>
                 /\ r = Head(hb_major.todo)
                 /\ hb_major' = [hb_major EXCEPT !.todo = Tail(@)]
         /\ hb_thread' = [hb_thread EXCEPT
                             ![t] = [pc |-> "read_lowest", low |-> r[1], high |-> r[2],
                                     old |-> 0]]
    /\ UNCHANGED <<heap_lowest, heap_highest, hb_calls>>
    /\ UNCHANGED nonBounds

mutant_mono_sgen_update_heap_boundaries(t) ==
    LET me == hb_thread[t]
    IN /\ me.pc # "idle"
       /\ heap_lowest' = IF me.pc = "cas_lowest" THEN me.low ELSE heap_lowest
       /\ heap_highest' = IF me.pc = "cas_highest" THEN me.high ELSE heap_highest
       /\ hb_thread' = [hb_thread EXCEPT ![t] =
             IF me.pc = "read_lowest"
             THEN [me EXCEPT !.old = heap_lowest,
                             !.pc = IF me.low >= heap_lowest THEN "read_highest"
                                    ELSE "cas_lowest"]
             ELSE IF me.pc = "cas_lowest" THEN [me EXCEPT !.pc = "read_highest"]
             ELSE IF me.pc = "read_highest" /\ me.high > heap_highest
             THEN [me EXCEPT !.old = heap_highest, !.pc = "cas_highest"]
             ELSE NotCalling]
       /\ hb_calls' = IF me.pc = "cas_highest" \/ (me.pc = "read_highest"
                                                      /\ me.high <= heap_highest)
                      THEN hb_calls \cup {<<me.low, me.high>>} ELSE hb_calls
       /\ UNCHANGED hb_major
       /\ UNCHANGED nonBounds

\* mono_sgen_update_heap_boundaries (low, high): one step of thread t, a read of
\* a bound with the test that follows it, or a SGEN_CAS_PTR.
mono_sgen_update_heap_boundaries(t) ==
    LET me == hb_thread[t]
        return == /\ hb_thread' = [hb_thread EXCEPT ![t] = NotCalling]
                  /\ hb_calls' = hb_calls \cup {<<me.low, me.high>>}
    IN /\ \/ /\ me.pc = "read_lowest"
             \* old = lowest_heap_address; if (low >= old) break;
             /\ hb_thread' = [hb_thread EXCEPT
                                 ![t] = [me EXCEPT !.old = heap_lowest,
                                                   !.pc = IF me.low >= heap_lowest
                                                          THEN "read_highest"
                                                          ELSE "cas_lowest"]]
             /\ UNCHANGED <<heap_lowest, heap_highest, hb_calls>>
          \/ /\ me.pc = "cas_lowest"
             /\ IF heap_lowest = me.old
                THEN /\ heap_lowest' = me.low
                     /\ hb_thread' = [hb_thread EXCEPT ![t] = [me EXCEPT !.pc = "read_highest"]]
                ELSE /\ hb_thread' = [hb_thread EXCEPT ![t] = [me EXCEPT !.pc = "read_lowest"]]
                     /\ UNCHANGED heap_lowest
             /\ UNCHANGED <<heap_highest, hb_calls>>
          \/ /\ me.pc = "read_highest"
             \* old = highest_heap_address; if (high <= old) break;
             /\ IF me.high <= heap_highest
                THEN return
                ELSE /\ hb_thread' = [hb_thread EXCEPT
                                         ![t] = [me EXCEPT !.old = heap_highest,
                                                           !.pc = "cas_highest"]]
                     /\ UNCHANGED hb_calls
             /\ UNCHANGED <<heap_lowest, heap_highest>>
          \/ /\ me.pc = "cas_highest"
             /\ IF heap_highest = me.old
                THEN /\ heap_highest' = me.high
                     /\ return
                ELSE /\ hb_thread' = [hb_thread EXCEPT ![t] = [me EXCEPT !.pc = "read_highest"]]
                     /\ UNCHANGED <<heap_highest, hb_calls>>
             /\ UNCHANGED heap_lowest
       /\ UNCHANGED hb_major
       /\ UNCHANGED nonBounds

\* major_do_collection with the world stopped: reset_heap_boundaries, then the
\* calls for the nursery and, in the sweep, for every large object that survives.
major_reset_heap_boundaries(t) ==
    /\ hb_major.collector = NoThread
    /\ \A u \in Threads : hb_thread[u].pc = "idle"
    /\ heap_lowest' = mword_max
    /\ heap_highest' = 0
    /\ hb_calls' = {}
    /\ \E survivors \in SUBSET BoundedLos :
         hb_major' = [collector |-> t,
                      todo |-> <<NurseryRange>>
                                 \o [i \in 1..Cardinality(survivors) |->
                                       LosRange(SortedSeq(survivors)[i])],
                      survivors |-> survivors]
    /\ UNCHANGED hb_thread
    /\ UNCHANGED nonBounds

\* The major collection made its calls and restarts the world.
major_reset_done(t) ==
    /\ hb_major.collector = t
    /\ hb_major.todo = <<>>
    /\ hb_thread[t].pc = "idle"
    /\ hb_major' = NoMajor
    /\ UNCHANGED <<heap_lowest, heap_highest, hb_thread, hb_calls>>
    /\ UNCHANGED nonBounds

\* The bounds as the initializers leave them.
BoundsInit ==
    /\ heap_lowest = mword_max
    /\ heap_highest = 0
    /\ hb_thread = [t \in Threads |-> NotCalling]
    /\ hb_calls = {}
    /\ hb_major = NoMajor

BoundsParked == BoundsInit

NextBounds ==
    \/ \E t \in Threads : update_heap_boundaries_call(t)
    \/ \E t \in Threads : mono_sgen_update_heap_boundaries(t)
    \/ \E t \in Threads : major_reset_heap_boundaries(t)
    \/ \E t \in Threads : major_reset_done(t)

(***************************************************************************)
(* Part 14.  mono_gc_clear_domain: the unload of an application domain.    *)
(* Two objects can lie in the nursery, one in the old generation and one   *)
(* in the large object store; an object is plain, a remoting proxy with    *)
(* its unwrapped_server, or an ephemeron array.                            *)
(***************************************************************************)

\* The nursery objects in address order, the old object and the large object.
NurseryObjects == <<1, 2>>

OldObjects == <<3>>

LargeObjects == <<4>>

Elements(list) == {list[i] : i \in DOMAIN list}

DomainObjects == Elements(NurseryObjects) \cup Elements(OldObjects)
                    \cup Elements(LargeObjects)

\* The domain that is unloaded and the root domain.
Domains == {"unloaded", "root"}

NoObject == [state |-> "none", domain |-> "root", kind |-> "plain", server |-> NULL]

\* What can lie at the place of object o.
ObjectsAt(o) ==
    {NoObject}
       \cup {[state |-> "live", domain |-> d, kind |-> k, server |-> NULL] :
                d \in Domains, k \in {"plain", "ephemeron", "proxy"}}
       \cup {[state |-> "live", domain |-> d, kind |-> "proxy", server |-> s] :
                d \in Domains, s \in DomainObjects \ {o}}

\* LOAD_VTABLE (obj) of memory that holds an object; zeroed memory reads as 0.
HasVtable(objects, obj) == objects[obj].state = "live"

mutant_process_object_for_domain_clearing(st, start, domain) ==
    LET server == st.objects[start].server
    IN IF st.objects[start].kind = "proxy" /\ server # NULL
          /\ st.objects[server].state = "zeroed"
       THEN [st EXCEPT !.objects[start].server = NULL]
       ELSE st

\* process_object_for_domain_clearing (start, domain): st holds the objects and
\* whether the header of a freed object was read.
process_object_for_domain_clearing(st, start, domain) ==
    LET server == st.objects[start].server
    IN IF st.objects[start].kind = "proxy" /\ server # NULL
       THEN IF \/ ~HasVtable(st.objects, server)
               \/ st.objects[server].domain = domain
            THEN [st EXCEPT !.objects[start].server = NULL,
                            !.read_freed = @ \/ st.objects[server].state = "freed"]
            ELSE st
       ELSE st

\* need_remove_object_for_domain (start, domain)
need_remove_object_for_domain(st, start, domain) == st.objects[start].domain = domain

\* clear_domain_process_object (obj, domain); the objects have no monitor.
clear_domain_process_object(st, obj, domain) ==
    process_object_for_domain_clearing(st, obj, domain)

\* mono_sgen_scan_area_with_callback over the nursery with
\* clear_domain_process_minor_object_callback: zeroed memory is stepped over, an
\* object of the domain is zeroed after it was processed.
RECURSIVE clear_domain_nursery(_, _, _)
clear_domain_nursery(st, i, domain) ==
    IF i <= Len(NurseryObjects)
    THEN LET obj == NurseryObjects[i]
         IN IF ~HasVtable(st.objects, obj)
            THEN clear_domain_nursery(st, i + 1, domain)
            ELSE LET p == clear_domain_process_object(st, obj, domain)
                 IN clear_domain_nursery(
                       IF need_remove_object_for_domain(p, obj, domain)
                       THEN [p EXCEPT !.objects[obj].state = "zeroed"] ELSE p,
                       i + 1, domain)
    ELSE st

\* The first pass over a list of objects of the old generation or of large
\* objects: clear_domain_process_object on each.
RECURSIVE clear_domain_process(_, _, _, _)
clear_domain_process(st, list, i, domain) ==
    IF i <= Len(list)
    THEN clear_domain_process(clear_domain_process_object(st, list[i], domain),
                              list, i + 1, domain)
    ELSE st

\* The second pass: every object of the domain is freed.
RECURSIVE clear_domain_free(_, _, _, _)
clear_domain_free(st, list, i, domain) ==
    IF i <= Len(list)
    THEN clear_domain_free(IF need_remove_object_for_domain(st, list[i], domain)
                           THEN [st EXCEPT !.objects[list[i]].state = "freed"] ELSE st,
                           list, i + 1, domain)
    ELSE st

\* null_ephemerons_for_domain (domain): a node leaves the list when its array is
\* set and the array's vtable word is 0.
RECURSIVE null_ephemerons_for_domain(_, _, _)
null_ephemerons_for_domain(list, objects, domain) ==
    IF list = <<>> THEN <<>>
    ELSE LET object == Head(list)
         IN IF object # NULL /\ ~HasVtable(objects, object)
            THEN null_ephemerons_for_domain(Tail(list), objects, domain)
            ELSE <<object>> \o null_ephemerons_for_domain(Tail(list), objects, domain)

\* mono_gc_clear_domain (domain), from LOCK_GC to UNLOCK_GC.
mono_gc_clear_domain ==
    LET domain == "unloaded"
        st == [objects |-> cd_objects, read_freed |-> cd_read_freed]
        Continue(to, res) == /\ cd_pc' = to
                             /\ cd_objects' = res.objects
                             /\ cd_read_freed' = res.read_freed
        present(list) == SelectSeq(list, LAMBDA o : cd_objects[o].state = "live")
    IN /\ \/ /\ cd_pc = "called"
             /\ cd_gc_lock' = TRUE
             /\ Continue("nursery", st)
             /\ UNCHANGED <<cd_los_list, ephemeron_list>>
          \/ /\ cd_pc = "nursery"
             /\ Continue("ephemerons", clear_domain_nursery(st, 1, domain))
             /\ UNCHANGED <<cd_gc_lock, cd_los_list, ephemeron_list>>
          \/ /\ cd_pc = "ephemerons"
             /\ ephemeron_list' = null_ephemerons_for_domain(ephemeron_list, cd_objects,
                                                             domain)
             /\ Continue("process_major", st)
             /\ UNCHANGED <<cd_gc_lock, cd_los_list>>
          \/ /\ cd_pc = "process_major"
             /\ Continue("process_los",
                         clear_domain_process(st, present(OldObjects), 1, domain))
             /\ UNCHANGED <<cd_gc_lock, cd_los_list, ephemeron_list>>
          \/ /\ cd_pc = "process_los"
             /\ Continue("free_los", clear_domain_process(st, cd_los_list, 1, domain))
             /\ UNCHANGED <<cd_gc_lock, cd_los_list, ephemeron_list>>
          \/ /\ cd_pc = "free_los"
             /\ Continue("free_major", clear_domain_free(st, cd_los_list, 1, domain))
             /\ cd_los_list' = SelectSeq(cd_los_list,
                                  LAMBDA o : ~need_remove_object_for_domain(st, o, domain))
             /\ UNCHANGED <<cd_gc_lock, ephemeron_list>>
          \/ /\ cd_pc = "free_major"
             /\ Continue("unlock", clear_domain_free(st, present(OldObjects), 1, domain))
             /\ UNCHANGED <<cd_gc_lock, cd_los_list, ephemeron_list>>
          \/ /\ cd_pc = "unlock"
             /\ cd_gc_lock' = FALSE
             /\ Continue("returned", st)
             /\ UNCHANGED <<cd_los_list, ephemeron_list>>
       /\ UNCHANGED cd_before
       /\ UNCHANGED nonDomain

\* A heap in which every proxy with a server refers to an object, every large
\* object is on los_object_list and every ephemeron array on ephemeron_list.
DomainInit ==
    /\ cd_pc = "called"
    /\ cd_gc_lock = FALSE
    /\ cd_objects \in {h \in [DomainObjects -> UNION {ObjectsAt(o) : o \in DomainObjects}] :
                         \A o \in DomainObjects :
                            /\ h[o] \in ObjectsAt(o)
                            /\ h[o].server # NULL => h[h[o].server].state = "live"}
    /\ cd_los_list = SelectSeq(LargeObjects, LAMBDA o : cd_objects[o].state = "live")
    /\ ephemeron_list = SelectSeq(NurseryObjects \o OldObjects \o LargeObjects,
                                  LAMBDA o : /\ cd_objects[o].state = "live"
                                             /\ cd_objects[o].kind = "ephemeron")
    /\ cd_before = [objects |-> cd_objects, ephemerons |-> ephemeron_list]
    /\ cd_read_freed = FALSE

DomainParked ==
    /\ cd_pc = "idle"
    /\ cd_gc_lock = FALSE
    /\ cd_objects = [o \in DomainObjects |-> NoObject]
    /\ cd_los_list = <<>>
    /\ ephemeron_list = <<>>
    /\ cd_before = [objects |-> cd_objects, ephemerons |-> <<>>]
    /\ cd_read_freed = FALSE

NextDomain == mono_gc_clear_domain

(***************************************************************************)
(* Part 15.  mono_gc_base_init called by several threads: the loop around  *)
(* InterlockedCompareExchange (&gc_initialized, -1, 0), the initialization *)
(* body and the final store of 1.                                          *)
(***************************************************************************)

NotInBaseInit == [pc |-> "idle", result |-> 0, calls |-> 0, waited |-> FALSE]

\* A thread calls mono_gc_base_init; a thread makes at most MaxCount calls.
base_init_call(t) ==
    /\ ~process_exited
    /\ base_init[t].pc = "idle"
    /\ base_init[t].calls < MaxCount
    /\ base_init' = [base_init EXCEPT ![t] = [pc |-> "compare_exchange", result |-> 0,
                                              calls |-> base_init[t].calls + 1,
                                              waited |-> FALSE]]
    /\ UNCHANGED <<gc_initialized, init_bodies, process_exited>>
    /\ UNCHANGED nonBaseInit

mutant_mono_gc_base_init(t) ==
    LET me == base_init[t]
    IN /\ ~process_exited
       /\ me.pc # "idle"
       /\ gc_initialized' = IF me.pc = "compare_exchange" /\ gc_initialized = 0 THEN -1
                            ELSE IF me.pc = "store" THEN 1 ELSE gc_initialized
       /\ base_init' = [base_init EXCEPT ![t] =
             IF me.pc = "compare_exchange"
             THEN [me EXCEPT !.result = gc_initialized,
                             !.pc = IF gc_initialized = 1 THEN "idle" ELSE "body"]
             ELSE IF me.pc = "body" THEN [me EXCEPT !.pc = "options"]
             ELSE IF me.pc = "options" THEN [me EXCEPT !.pc = "remset"]
             ELSE IF me.pc = "remset" THEN [me EXCEPT !.pc = "store"]
             ELSE [me EXCEPT !.pc = "idle"]]
       /\ init_bodies' = IF me.pc = "body" THEN init_bodies + 1 ELSE init_bodies
       /\ UNCHANGED process_exited
       /\ UNCHANGED nonBaseInit

\* mono_gc_base_init (): one step of thread t.
mono_gc_base_init(t) ==
    LET me == base_init[t]
    IN /\ ~process_exited
       /\ \/ /\ me.pc = "compare_exchange"
             \* result = InterlockedCompareExchange (&gc_initialized, -1, 0);
             /\ gc_initialized' = IF gc_initialized = 0 THEN -1 ELSE gc_initialized
             /\ base_init' = [base_init EXCEPT ![t] =
                   [me EXCEPT !.result = gc_initialized,
                              !.pc = IF gc_initialized = 1 THEN "idle"
                                     ELSE IF gc_initialized = -1 THEN "usleep"
                                     ELSE "body"]]
             /\ UNCHANGED <<init_bodies, process_exited>>
          \/ /\ me.pc = "usleep"
             \* g_usleep (1000); break; } while (result != 0);
             /\ base_init' = [base_init EXCEPT ![t] = [me EXCEPT !.pc = "compare_exchange",
                                                                 !.waited = TRUE]]
             /\ UNCHANGED <<gc_initialized, init_bodies, process_exited>>
          \/ /\ me.pc = "body"
             \* LOCK_INIT (gc_mutex) and the set-up of the callbacks.
             /\ init_bodies' = init_bodies + 1
             /\ base_init' = [base_init EXCEPT ![t] = [me EXCEPT !.pc = "options"]]
             /\ UNCHANGED <<gc_initialized, process_exited>>
          \/ /\ me.pc = "options"
             \* MONO_GC_PARAMS, alloc_nursery and MONO_GC_DEBUG, with exit (1) on an
             \* option that cannot be used.
             /\ \/ /\ base_init' = [base_init EXCEPT ![t] = [me EXCEPT !.pc = "remset"]]
                   /\ UNCHANGED process_exited
                \/ /\ process_exited' = TRUE
                   /\ UNCHANGED base_init
             /\ UNCHANGED <<gc_initialized, init_bodies>>
          \/ /\ me.pc = "remset"
             \* The initialization of the remembered set.
             /\ base_init' = [base_init EXCEPT ![t] = [me EXCEPT !.pc = "store"]]
             /\ UNCHANGED <<gc_initialized, init_bodies, process_exited>>
          \/ /\ me.pc = "store"
             \* gc_initialized = 1;
             /\ gc_initialized' = 1
             /\ base_init' = [base_init EXCEPT ![t] = [me EXCEPT !.pc = "idle"]]
             /\ UNCHANGED <<init_bodies, process_exited>>
       /\ UNCHANGED nonBaseInit

BaseInitInit ==
    /\ gc_initialized = 0
    /\ base_init = [t \in Threads |-> NotInBaseInit]
    /\ init_bodies = 0
    /\ process_exited = FALSE

BaseInitParked == BaseInitInit

NextBaseInit ==
    \/ \E t \in Threads : base_init_call(t)
    \/ \E t \in Threads : mono_gc_base_init(t)

(***************************************************************************)
(* Specifications.                                                         *)
(***************************************************************************)

vars == <<stwVars, wbVars, gcVars, finVars, drvVars, extVars>>

BridgeParked == bridge = [processing |-> FALSE, objects |-> {}]

\* Parts 10 and later at rest.
LateParked == SortParked /\ PinParked /\ LosParked /\ BoundsParked /\ DomainParked /\ BaseInitParked

ExtParked == RootsParked /\ LinksParked /\ BridgeParked /\ InvParked /\ LocksParked
              /\ LateParked

InitSTW == STWInit /\ WBParked /\ GCParked /\ FinParked /\ DrvParked /\ ExtParked

SpecSTW == InitSTW /\ [][NextSTW]_vars

STWParked == STWInit

CoreParked == STWParked /\ WBParked /\ GCParked /\ FinParked /\ DrvParked

\* The specifications of Parts 10 and later.
InitSort == SortInit /\ CoreParked /\ RootsParked /\ LinksParked /\ BridgeParked
              /\ InvParked /\ LocksParked /\ PinParked /\ LosParked /\ BoundsParked /\ DomainParked /\ BaseInitParked

SpecSort == InitSort /\ [][NextSort]_vars

InitPin == PinInit /\ CoreParked /\ RootsParked /\ LinksParked /\ BridgeParked
              /\ InvParked /\ LocksParked /\ SortParked /\ LosParked /\ BoundsParked /\ DomainParked /\ BaseInitParked

SpecPin == InitPin /\ [][NextPin]_vars

InitLos == LosInit /\ CoreParked /\ RootsParked /\ LinksParked /\ BridgeParked
              /\ InvParked /\ LocksParked /\ SortParked /\ PinParked /\ BoundsParked /\ DomainParked /\ BaseInitParked

SpecLos == InitLos /\ [][NextLos]_vars

InitBounds == BoundsInit /\ CoreParked /\ RootsParked /\ LinksParked /\ BridgeParked
              /\ InvParked /\ LocksParked /\ SortParked /\ PinParked /\ LosParked /\ DomainParked /\ BaseInitParked

SpecBounds == InitBounds /\ [][NextBounds]_vars

InitDomain == DomainInit /\ CoreParked /\ RootsParked /\ LinksParked /\ BridgeParked
              /\ InvParked /\ LocksParked /\ SortParked /\ PinParked /\ LosParked /\ BoundsParked /\ BaseInitParked

SpecDomain == InitDomain /\ [][NextDomain]_vars

InitBaseInit == BaseInitInit /\ CoreParked /\ RootsParked /\ LinksParked /\ BridgeParked
              /\ InvParked /\ LocksParked /\ SortParked /\ PinParked /\ LosParked /\ BoundsParked /\ DomainParked

SpecBaseInit == InitBaseInit /\ [][NextBaseInit]_vars

InitWB == WBInit /\ STWParked /\ GCParked /\ FinParked /\ DrvParked /\ ExtParked

SpecWB == InitWB /\ [][NextWB]_vars

InitGC == GCInit /\ STWParked /\ WBParked /\ FinParked /\ DrvParked /\ ExtParked

SpecGC == InitGC /\ [][NextGC]_vars

InitFin == FinInit /\ STWParked /\ WBParked /\ GCParked /\ DrvParked /\ ExtParked

SpecFin == InitFin /\ [][NextFin]_vars

InitFgs == FgsInit /\ STWParked /\ WBParked /\ GCParked /\ DrvParked /\ RootsParked /\ LinksParked /\ InvParked /\ LocksParked
              /\ LateParked

SpecFgs == InitFgs /\ [][NextFgs]_vars

InitInv == InvInit /\ CoreParked /\ RootsParked /\ LinksParked /\ BridgeParked /\ LocksParked
              /\ LateParked

SpecInv == InitInv /\ [][NextInv]_vars

InitLocks == LocksInit /\ CoreParked /\ RootsParked /\ LinksParked /\ BridgeParked /\ InvParked
              /\ LateParked

SpecLocks == InitLocks /\ [][NextLocks]_vars

InitDrv == DrvInit /\ WBParked /\ GCParked /\ FinParked /\ ExtParked

SpecDrv == InitDrv /\ [][NextDrv]_vars

InitAllow == AllowInit /\ STWParked /\ WBParked /\ GCParked /\ FinParked /\ ExtParked

SpecAllow == InitAllow /\ [][NextAllow]_vars

InitRoots == RootsInit /\ CoreParked /\ LinksParked /\ BridgeParked /\ InvParked /\ LocksParked
              /\ LateParked

SpecRoots == InitRoots /\ [][NextRoots]_vars

InitLinks == LinksInit /\ CoreParked /\ RootsParked /\ BridgeParked /\ InvParked /\ LocksParked
              /\ LateParked

SpecLinks == InitLinks /\ [][NextLinks]_vars


(***************************************************************************)
(* Claims about the stop-the-world controller, checked under SpecSTW.      *)
(***************************************************************************)

CollectionPcs == {"collect_nursery", "major_collection", "major_collect_nursery"}

StopWorldPcs == {"stop_world", "restart_loop", "wait_restart_ack", "resuspend",
                 "wait_suspend_ack", "stop_world_return"}

\* C1: every entry point calls stop_world exactly once before any collection phase
\* and restart_world exactly once after the last one; collect_nursery and
\* major_collection run only while the world is stopped, and stop_world is never
\* entered while the world is already stopped (also for minor -> major -> minor).
C1_StopRestartBracket ==
    /\ pc \in CollectionPcs => (world_stopped /\ n_stop = 1 /\ n_restart = 0)
    /\ pc \in StopWorldPcs => (~world_stopped /\ n_stop = 0 /\ n_restart = 0
                               /\ phases = <<>>)
    /\ pc = "restart_world" => (world_stopped /\ n_stop = 1 /\ n_restart = 0)
    /\ pc = "return" => (~world_stopped /\ n_stop = 1 /\ n_restart = 1)
    /\ pc = "idle" => (~world_stopped /\ phases = <<>>)
    /\ world_stopped => (interruption_lock = Collector /\ suspend_lock = Collector)

\* C1 witness: an allocation-triggered minor overflowed into a major that asked for
\* a further minor, and the entry point has returned from restart_world.
C1_Witness ==
    /\ entry = "minor_collect_or_expand_inner"
    /\ pc = "return"
    /\ phases = <<"minor", "major", "minor">>
    /\ n_stop = 1
    /\ n_restart = 1

\* The threads the contract of stop_world speaks about.
Scannable(t) ==
    /\ t # Collector
    /\ tstate[t] # "dead"
    /\ ~info[t].skip
    /\ ~info[t].gc_disabled
    /\ ~info[t].thread_is_dying

\* C2: when restart_threads_until_none_in_managed_allocator returns, every
\* registered thread that is not skip, not gc_disabled and not dying is suspended
\* with a published stack_start, outside a critical region and with its ip outside
\* the managed allocator / write barrier method.
C2_NoneInManagedAllocator ==
    pc = "stop_world_return" =>
        \A t \in Threads : Scannable(t) =>
            /\ tstate[t] = "suspended"
            /\ info[t].stack_start
            /\ ~in_critical_region(t)
            /\ loc[t] # "alloc"

\* The same statement for a collector that has a MonoInternalThread.
C2_HoldsForAttachedCollector == collector_attached => C2_NoneInManagedAllocator

\* C3: a thread whose resume or re-suspend failed is marked skip and is scanned by
\* no scan_thread_data call of the following collection, and the collection
\* proceeds: the wait for the re-suspension acks can complete.
C3_SkipExcludedAndProceeds ==
    /\ \A t \in skipped_in_stop : info[t].skip
    /\ skipped_in_stop \cap (scanned_conservative \cup scanned_precise) = {}
    /\ pc = "wait_suspend_ack" => acks >= resuspend_ack_count

\* The parts of C3 that do not depend on the ack count of line 3714.
C3_SkipExcluded ==
    /\ \A t \in skipped_in_stop : info[t].skip
    /\ skipped_in_stop \cap (scanned_conservative \cup scanned_precise) = {}

C3_SkipWitness ==
    /\ skipped_in_stop # {}
    /\ phases # <<>>


(***************************************************************************)
(* Claims about the write barriers, checked under SpecWB.                  *)
(***************************************************************************)

\* Slots of the old generation: outside the nursery and outside the stack.
HeapSlotsOutsideNursery == {s \in Slots : ~ptr_in_nursery(s) /\ ~ptr_on_stack(s)}

\* C4: in every barrier entry point that stores, the slot is recorded before the
\* store: no state is reachable in which a slot outside the nursery already holds
\* the new nursery pointer of the call in progress and has not been recorded.
C4_RecordBeforeStore ==
    \A s \in HeapSlotsOutsideNursery :
        (wb.op \in StoreOps \cup CopyOps /\ ptr_in_nursery(mem[s])) => s \in remset

\* The entry points that hand the store to the remembered set do record first.
C4_HoldsForRemsetStores ==
    wb.op # "generic_store" => C4_RecordBeforeStore

\* C5: between barrier calls every slot outside the nursery and outside the stack
\* whose value points into the nursery has been handed to the remembered set, and
\* mono_gc_wbarrier_generic_nostore records its slot exactly when the slot is not
\* in the nursery, not on the stack and its content is in the nursery.
C5_NurseryPointersRemembered ==
    /\ [](wb.at = "done" =>
            \A s \in HeapSlotsOutsideNursery : ptr_in_nursery(mem[s]) => s \in remset)
    /\ [][(wb.op = "generic_nostore" /\ wb.at = "entry") =>
            remset' = IF /\ ~ptr_in_nursery(wb.dest)
                         /\ ~ptr_on_stack(wb.dest)
                         /\ ptr_in_nursery(mem[wb.dest])
                      THEN remset \cup {wb.dest}
                      ELSE remset]_vars

\* C5 witness: an old slot was filled with a nursery pointer by a barrier that has
\* returned, and generic_nostore has just skipped a slot that holds no nursery
\* pointer while the remembered set is not empty.
C5_Witness ==
    /\ wb.op = "generic_nostore"
    /\ wb.at = "return"
    /\ ~ptr_in_nursery(wb.dest)
    /\ ~ptr_on_stack(wb.dest)
    /\ ~ptr_in_nursery(mem[wb.dest])
    /\ wb.dest \notin remset
    /\ \E s \in HeapSlotsOutsideNursery : ptr_in_nursery(mem[s]) /\ s \in remset

\* C6: a barrier whose destination is in the nursery stores or copies like a raw
\* store or memmove of the source as it was, and leaves the remembered set
\* unchanged; arrayref_copy leaves dest[0..count) equal to the old src[0..count).
C6_NurseryDestinationPlainCopy ==
    [][(wb.at \in {"entry", "stored"} /\ ptr_in_nursery(wb.dest)) =>
        /\ remset' = remset
        /\ (wb.at = "entry" /\ wb.op \in StoreOps) =>
              /\ mem'[wb.dest] = wb.value
              /\ \A a \in Slots \ {wb.dest} : mem'[a] = mem[a]
        /\ (wb.at = "entry" /\ wb.op \in CopyOps) =>
              /\ \A i \in 0..(wb.count - 1) :
                    mem'[CopyDest(wb) + i] = mem[CopySrc(wb) + i]
              /\ \A a \in Slots :
                    (a < CopyDest(wb) \/ a >= CopyDest(wb) + wb.count) => mem'[a] = mem[a]
        /\ (wb.at = "stored" \/ wb.op = "generic_nostore") => mem' = mem]_vars

\* C6 witness: arrayref_copy has copied two elements inside the nursery from a
\* source that overlaps the destination, while the remembered set holds a slot.
C6_Witness ==
    /\ wb.op = "arrayref_copy"
    /\ wb.at = "return"
    /\ ptr_in_nursery(wb.dest)
    /\ wb.count = MaxCount
    /\ wb.dest = wb.src + 1
    /\ mem[wb.dest] # mem[wb.dest + 1]
    /\ remset # {}

(***************************************************************************)
(* Claims about pinning, copying and tracing.                              *)
(***************************************************************************)

\* The generation of the collection started last.
LastCollection == collections[Len(collections)]

AfterCollection == gpc = "idle" /\ collections # <<>>

AfterMinor == AfterCollection /\ LastCollection = "nursery"

\* The cell that held, when the collection started, the object that is now in c.
OriginOf(c) == CHOOSE b \in Cells : heap_before[b].live /\ heap_before[b].id = heap[c].id

\* Remembered slots that pointed to a nursery object the minor did not pin.
RememberedToUnpinned ==
    {c \in remset_before : /\ heap_before[c].live
                           /\ mono_sgen_ptr_in_nursery(heap_before[c].field)
                           /\ heap_before[c].field \notin was_pinned}

\* Slots of the major heap that point into the nursery.
OldToNursery == {c \in OldCells : heap[c].live /\ mono_sgen_ptr_in_nursery(heap[c].field)}

\* C7: after a minor collection every remembered slot of the major heap that
\* pointed to a nursery object the minor did not pin holds the address of that
\* object outside the nursery; every slot of the major heap that still points into
\* the nursery points to an object pinned and left in place by this minor, pointed
\* into the nursery before the minor, and is in the global remembered set.
C7_RemsetAfterMinor ==
    AfterMinor =>
        /\ \A c \in RememberedToUnpinned :
             LET new == heap[c].field
             IN /\ new # NULL
                /\ ~mono_sgen_ptr_in_nursery(new)
                /\ heap[new].live
                /\ heap[new].id = heap_before[heap_before[c].field].id
        /\ \A c \in OldToNursery :
             LET obj == heap[c].field
             IN /\ obj \in was_pinned
                /\ heap[obj].live
                /\ heap[obj].forward = NULL
                /\ heap[obj].id = heap_before[obj].id
                /\ \E b \in Cells : /\ heap_before[b].live
                                    /\ heap_before[b].id = heap[c].id
                                    /\ heap_before[b].field = obj
                /\ c \in global_remset

\* A minor collection that promoted the referent of one remembered slot and left
\* a slot of the major heap pointing to a pinned nursery object.
C7_Witness ==
    /\ AfterMinor
    /\ RememberedToUnpinned # {}
    /\ OldToNursery # {}

\* The nursery objects that held, when the collection started, a candidate word
\* of the conservatively scanned areas after masking to ALLOC_ALIGN.
CandidateObjects ==
    {o \in NurseryCells :
        /\ heap_before[o].live
        /\ \E i \in DOMAIN cwords :
             LET addr == cwords[i] - (cwords[i] % ALLOC_ALIGN)
             IN addr >= o /\ addr < o + ObjectSize}

\* The pin queue has been resolved and nothing has been scanned yet.
PinningJustDone ==
    /\ gpc \notin {"idle", "pin_from_roots", "pin_objects"}
    /\ gpc = collection_phases(current_collection_generation)[3]

\* C8: after a minor or a major collection every nursery object that held a
\* conservative candidate word (masked to ALLOC_ALIGN) is at the address it had
\* before the collection, was never copied or forwarded, and was pinned and put on
\* the gray stack during the collection; when the pin queue has been resolved the
\* pinned nursery objects are exactly these, so a candidate inside no object pins
\* nothing.
C8_CandidatesPinInPlace ==
    /\ AfterCollection =>
         \A o \in CandidateObjects :
            /\ heap[o].live
            /\ heap[o].id = heap_before[o].id
            /\ heap[o].forward = NULL
            /\ o \in was_pinned
            /\ o \in was_enqueued
            /\ \A c \in Cells \ {o} : ~(heap[c].live /\ heap[c].id = heap[o].id)
    /\ PinningJustDone =>
         /\ was_pinned \cap NurseryCells = CandidateObjects
         /\ \A o \in NurseryCells : heap[o].pinned <=> o \in CandidateObjects

\* A collection after which an object that held a candidate in its middle is in
\* place while another nursery object was evacuated, and a candidate word lay in
\* the nursery inside no object.
C8_Witness ==
    /\ AfterCollection
    /\ CandidateObjects # {}
    /\ \E o \in NurseryCells : heap_before[o].live /\ ~heap[o].live
    /\ \E i \in DOMAIN cwords : cwords[i] % ALLOC_ALIGN # 0

\* A resolved pin queue for candidates of which one lies in the nursery inside no
\* object.
C8_NothingPinnedWitness ==
    /\ PinningJustDone
    /\ was_pinned = {}
    /\ \E i \in DOMAIN cwords : /\ mono_sgen_ptr_in_nursery(cwords[i])
                                /\ ~heap_before[nursery_start].live

\* The objects that carry a forwarding pointer.
Forwarded == {c \in Cells : heap[c].live /\ heap[c].forward # NULL}

\* C9: in every state of a collection no object is both pinned and forwarded and
\* no two objects are forwarded to the same destination; while the pin queue is
\* being filled and resolved nothing has been copied; an object pinned after a
\* failed evacuation carries no forwarding pointer.
C9_PinnedNotForwarded ==
    /\ \A c \in Cells : ~(heap[c].pinned /\ heap[c].forward # NULL)
    /\ \A c, d \in Forwarded : heap[c].forward = heap[d].forward => c = d
    /\ gpc \in {"pin_from_roots", "pin_objects"} => Forwarded = {}
    /\ \A c \in was_pinned : heap[c].live => heap[c].forward = NULL

\* A collection in which one object was evacuated and the evacuation of another
\* one failed, so that it was pinned late and stays in the nursery.
C9_Witness ==
    /\ objects_pinned > 0
    /\ Forwarded # {}
    /\ \E c \in NurseryCells : heap[c].pinned

\* The cells on the reference chain that starts at address c.
RECURSIVE Chain(_, _, _)
Chain(h, c, n) == IF n = 0 \/ c = NULL THEN {} ELSE {c} \cup Chain(h, h[c].field, n - 1)

ReachableFrom(h, R) == UNION {Chain(h, r, Cardinality(Cells)) : r \in R}

\* The identities of the objects on the reference chain of the slot of cell c.
RECURSIVE IdTrail(_, _, _)
IdTrail(h, c, n) ==
    IF n = 0 \/ h[c].field = NULL THEN <<>>
    ELSE <<h[h[c].field].id>> \o IdTrail(h, h[c].field, n - 1)

\* The objects, of either generation, that held a conservative candidate word when
\* the collection started.
HeldObjects ==
    {o \in NurseryCells \cup OldCells :
        /\ heap_before[o].live
        /\ \E i \in DOMAIN cwords :
             LET addr == cwords[i] - (cwords[i] % ALLOC_ALIGN)
             IN addr >= o /\ addr < o + ObjectSize}

\* The objects the last collection could have moved or freed.
ScannedGeneration ==
    IF LastCollection = "nursery" THEN NurseryCells ELSE NurseryCells \cup OldCells

\* What the registered root and the conservatively scanned areas reach.
ReachableFromRoots ==
    ReachableFrom(heap_before, {heap_before[RootCell].field} \cup HeldObjects)

\* What a collection treats as reachable: in a minor collection also the referents
\* of the remembered slots, in a major one the roots only.
ReachableForCollector ==
    IF LastCollection = "nursery"
    THEN ReachableFrom(heap_before, {heap_before[RootCell].field} \cup CandidateObjects
                                    \cup {heap_before[c].field : c \in remset_before})
    ELSE ReachableFromRoots

Reclaimed(o) == \A c \in Cells : ~(heap[c].live /\ heap[c].id = heap_before[o].id)

\* The slots the last collection scanned.
ScannedSlots ==
    {c \in Cells : heap[c].live /\ (c \in was_enqueued \/ c \in remset_before \/ c = RootCell)}

\* The objects on the chain of the root are the same before, during and after a
\* collection.
RootedSurvive == IdTrail(heap, RootCell, Cardinality(Cells)) =
                     IdTrail(heap_before, RootCell, Cardinality(Cells))

\* A rooted nursery object that is not pinned, through the pin queue or after a
\* failed evacuation, is promoted by a minor collection.
RootedPromoted ==
    LET old == heap_before[RootCell].field
        new == heap[RootCell].field
    IN (AfterMinor /\ mono_sgen_ptr_in_nursery(old) /\ old \notin was_pinned) =>
          /\ new # NULL
          /\ heap[new].live
          /\ heap[new].id = heap_before[old].id
          /\ mono_gc_get_generation(new) = 1
          /\ \A c \in ScannedSlots : heap_before[OriginOf(c)].field = old => heap[c].field = new

GenerationOfAddress ==
    \A a \in (nursery_start - 1)..RootCell :
        mono_gc_get_generation(a) = 0 <=> (a >= nursery_start /\ a < nursery_start + nursery_size)

\* C10 as stated: rooted objects survive, a rooted unpinned nursery object is
\* promoted by one minor collection, and every object that neither the registered
\* root nor a conservative candidate reaches is reclaimed by the next collection
\* that scans its generation.
C10_UnreachableReclaimed ==
    /\ RootedSurvive
    /\ RootedPromoted
    /\ GenerationOfAddress
    /\ AfterCollection =>
         \A o \in ScannedGeneration :
            (heap_before[o].live /\ o \notin ReachableFromRoots) => Reclaimed(o)

\* C10, amended: rooted objects survive every collection; a rooted nursery object
\* that is not pinned is promoted by one minor collection, the root slot and every
\* scanned slot that referenced it hold its new address, whose generation is 1
\* (0 exactly for nursery addresses); an object that is reachable neither from the
\* roots nor, in a minor collection, from a remembered slot of the major heap is
\* reclaimed by the next collection that scans its generation.
C10_RootedSurviveAndPromoted ==
    /\ RootedSurvive
    /\ RootedPromoted
    /\ GenerationOfAddress
    /\ AfterCollection =>
         \A o \in ScannedGeneration :
            (heap_before[o].live /\ o \notin ReachableForCollector) => Reclaimed(o)

\* A minor collection that promoted the rooted object, updated a second slot that
\* referenced it, and reclaimed an unreachable nursery object.
C10_Witness ==
    /\ AfterMinor
    /\ mono_sgen_ptr_in_nursery(heap_before[RootCell].field)
    /\ heap_before[RootCell].field \notin was_pinned
    /\ \E c \in ScannedSlots \ {RootCell} :
            heap_before[OriginOf(c)].field = heap_before[RootCell].field
    /\ \E o \in NurseryCells :
            heap_before[o].live /\ o \notin ReachableForCollector /\ Reclaimed(o)

(***************************************************************************)
(* Claims about finalization, disappearing links and ephemerons.           *)
(***************************************************************************)

\* The objects that wait in the fin-ready list for their finalizer.
PendingFinalizers == {fin_ready_list[i] : i \in DOMAIN fin_ready_list}

\* C11: when the finalizer of an object that a collection found unreachable is
\* invoked, the non-tracking link that revealed the object reveals null and the
\* tracking link that revealed it still reveals it; as long as the finalizer is
\* pending no collection nulls the tracking link.
C11_LinksSeenByFinalizer ==
    /\ \A i \in DOMAIN saw :
         /\ saw[i].object \in ready_weak => saw[i].weak = NULL
         /\ saw[i].object \in ready_tracked => saw[i].track = saw[i].object
    /\ \A o \in PendingFinalizers \cap ready_tracked : dislinks["track"] = o

\* What finish_gray_stack returns for a collection started in the current state.
FinishedCollections ==
    {finish_gray_stack(ScanRoots(FinState(generation, exhausted))) :
        generation \in {"nursery", "old"}, exhausted \in BOOLEAN}

\* C12: when finish_gray_stack returns, in an ephemeron array that is still on
\* ephemeron_list a pair whose key was neither null nor the tombstone has a
\* reachable value if its key is reachable, also when only finalization made the
\* key reachable, and is (tombstone, null) if its key is unreachable; so after a
\* collection no listed pair holds a reclaimed key or value.
C12_EphemeronPairs ==
    /\ \A g \in FinishedCollections :
         (g.eph.listed /\ ephemeron.key # NULL /\ ephemeron.key # tombstone) =>
            IF object_is_reachable(g, ephemeron.key)
            THEN /\ g.eph.key = ephemeron.key
                 /\ g.eph.value # NULL => object_is_reachable(g, g.eph.value)
            ELSE g.eph.key = tombstone /\ g.eph.value = NULL
    /\ (fin_log # <<>> /\ ephemeron.listed) =>
         IF ephemeron.key = tombstone THEN ephemeron.value = NULL
         ELSE /\ fobj[ephemeron.key].alive
              /\ ephemeron.value # NULL => fobj[ephemeron.value].alive

\* After a collection the key of the listed pair is an object that only its
\* pending finalizer keeps, and the value has survived with it.
C12_Witness ==
    /\ fin_log # <<>>
    /\ ephemeron.listed
    /\ ephemeron.key \in PendingFinalizers
    /\ froot = NULL
    /\ ephemeron.value # NULL
    /\ fobj[ephemeron.value].alive

\* After a collection the pair of the listed array has been cleared.
C12_TombstoneWitness ==
    /\ ephemeron.listed
    /\ ephemeron.key = tombstone
    /\ ephemeron.value = NULL

\* Objects 1 and 2 reference each other.
FinalizerCycle == fobj[1].ref = 2 /\ fobj[2].ref = 1

\* What a major collection started in the current state returns.
FinishedMajors ==
    {finish_gray_stack(ScanRoots(FinState("old", exhausted))) : exhausted \in BOOLEAN}

\* A major collection has moved both objects of the cycle to the fin-ready list.
CycleQueuedByMajor ==
    /\ FinalizerCycle
    /\ \E i \in DOMAIN fin_log : fin_log[i].generation = "old" /\ fin_log[i].queued = {1, 2}

\* C13: two unreachable objects with finalizers that reference each other are
\* both moved to the fin-ready list by one major collection, which leaves two
\* pending finalizers; neither object is reclaimed before its finalizer has run;
\* when both finalizers have run, the following major collection reclaims both.
C13_FinalizerCycle ==
    /\ (/\ FinalizerCycle
        /\ froot = NULL
        /\ finalizable_hash = {1, 2}
        /\ fobj[1].alive /\ fobj[2].alive
        /\ fin_ready_list = <<>>) =>
          \A g \in FinishedMajors :
             /\ g.queued = {1, 2}
             /\ {g.fin_list[i] : i \in DOMAIN g.fin_list} = {1, 2}
             /\ g.num_ready = 2
             /\ reclaim(g)[1].alive /\ reclaim(g)[2].alive
    /\ CycleQueuedByMajor =>
          /\ \A o \in {1, 2} \ ran : fobj[o].alive
          /\ \A i \in DOMAIN saw : saw[i].alive
          /\ {1, 2} \subseteq ran =>
                \A g \in FinishedMajors : ~reclaim(g)[1].alive /\ ~reclaim(g)[2].alive


(***************************************************************************)
(* Claims about the collection drivers (SpecDrv).                          *)
(***************************************************************************)

\* The calls of collect_nursery made by the entry point that ran last.
CollectNurseryCalls == {i \in DOMAIN trace : trace[i].kind \in {"minor", "no minor"}}

\* The heuristic of need_major_collection (0), read off the globals: the bytes of
\* major sections and of large objects allocated since the last major collection
\* exceed the allowance (nothing is needed, so free space plays no part).
LosSinceMajor ==
    IF los_memory_usage > last_collection_los_memory_usage
    THEN los_memory_usage - last_collection_los_memory_usage ELSE 0

MajorDue ==
    minor_collection_sections_alloced * section_size + LosSinceMajor
        > minor_collection_allowance

\* The entry point that ran last ended with a collect_nursery call and
\* restart_world, so the globals are still those at the end of that call.
EndedWithCollectNursery ==
    /\ Len(trace) >= 2
    /\ trace[Len(trace)].kind = "restart_world"
    /\ Len(trace) - 1 \in CollectNurseryCalls

\* C14 (as stated): collect_nursery returns true if and only if the minor pinned an
\* object that could not be evacuated or need_major_collection (0) holds at its end;
\* in every other case, for every configuration, it returns false.
C14_ReturnsTrueIff ==
    \A i \in CollectNurseryCalls :
        trace[i].returned <=> (trace[i].pinned > 0 \/ trace[i].due)

\* C14 (amended): when minor collections are enabled, collect_nursery returns true
\* if and only if the minor pinned an object that could not be evacuated or
\* need_major_collection (0) holds at its end; with minor collections disabled
\* (debug option disable-minor) it collects nothing and returns true.
C14_ReturnsTrueIffWhenEnabled ==
    /\ \A i \in CollectNurseryCalls :
          /\ trace[i].kind = "minor" <=> ~disable_minor_collections
          /\ trace[i].kind = "minor" =>
                (trace[i].returned <=> (trace[i].pinned > 0 \/ trace[i].due))
          /\ trace[i].kind = "no minor" => trace[i].returned /\ trace[i].pinned = 0
    /\ EndedWithCollectNursery /\ ~disable_minor_collections =>
          (trace[Len(trace) - 1].returned
              <=> (trace[Len(trace) - 1].pinned > 0 \/ MajorDue))

\* A minor that returned true only because it pinned an object, the globals still
\* being those at its end.
C14_Witness ==
    /\ EndedWithCollectNursery
    /\ trace[Len(trace) - 1].kind = "minor"
    /\ trace[Len(trace) - 1].returned
    /\ trace[Len(trace) - 1].pinned > 0
    /\ ~MajorDue

\* A minor that returned true only because the allowance is used up, and one that
\* returned false.
C14_DueWitness ==
    /\ EndedWithCollectNursery
    /\ trace[Len(trace) - 1].kind = "minor"
    /\ trace[Len(trace) - 1].returned
    /\ trace[Len(trace) - 1].pinned = 0

C14_FalseWitness ==
    /\ EndedWithCollectNursery
    /\ trace[Len(trace) - 1].kind = "minor"
    /\ ~trace[Len(trace) - 1].returned


\* A minor of the entry point that ran last pinned an object whose evacuation
\* failed, and no major collection has run since.
OverflowPending ==
    \E i \in DOMAIN trace :
        /\ trace[i].kind = "minor"
        /\ trace[i].pinned > 0
        /\ \A j \in DOMAIN trace : j > i => trace[j].kind # "major"

\* The step is an allocation by a mutator (a major section or a large object).
MutatorAllocates == trace' = <<>> /\ allocated_heap' > allocated_heap

\* C15: whenever a minor collection pins an object in place because evacuation
\* failed, a major collection runs before the next mutator allocation, whichever
\* entry point ran the minor (read with both kinds of collection enabled).
C15_MajorBeforeNextAllocation ==
    [][(/\ ~disable_minor_collections
        /\ ~disable_major_collections
        /\ MutatorAllocates) => ~OverflowPending]_vars


\* The major collections run by the entry point that ran last.
MajorsRun == {i \in DOMAIN trace : trace[i].kind = "major"}

\* What the entry point did right after event i: a further collect_nursery call
\* that collected, or not.
FurtherMinorAfter(i) == i + 1 \in DOMAIN trace /\ trace[i + 1].kind = "minor"

\* C16 (as stated): a major collection triggered by minor overflow is followed at
\* once, before the world is restarted, by a further minor collection; a major
\* triggered otherwise is not followed by a minor.
C16_FurtherMinorAfterOverflowMajor ==
    \A i \in MajorsRun :
        FurtherMinorAfter(i) <=> trace[i].reason = "minor overflow"

\* C16 (amended): whatever triggered it, a major collection is followed at once,
\* before the world is restarted, by a further minor collection exactly when
\* major_do_collection returned true, that is when the major itself pinned
\* objects it could not evacuate (and minor collections are enabled); with major
\* collections disabled no major runs and a minor takes its place.
C16_FurtherMinorAfterPinningMajor ==
    /\ \A i \in MajorsRun :
          /\ i + 1 \in DOMAIN trace
          /\ trace[i + 1].kind \in {"minor", "no minor", "restart_world"}
          /\ trace[i + 1].kind \in {"minor", "no minor"} <=> trace[i].returned
          /\ FurtherMinorAfter(i) <=> (trace[i].returned /\ ~disable_minor_collections)
          /\ trace[i].returned <=> trace[i].pinned > 0
    /\ disable_major_collections => MajorsRun = {}

\* A major triggered by a user request that pinned objects and was followed by a
\* further minor, and a major triggered by minor overflow that was not.
C16_Witness ==
    \E i \in MajorsRun :
        /\ trace[i].reason = "user request"
        /\ trace[i].returned
        /\ FurtherMinorAfter(i)
        /\ trace[i + 2].kind = "restart_world"

C16_OverflowWitness ==
    \E i \in MajorsRun :
        /\ trace[i].reason = "minor overflow"
        /\ ~trace[i].returned
        /\ trace[i + 1].kind = "restart_world"


\* The collections (minor or major) that the entry point of a trace ran.
CollectionsRun(t) == {i \in DOMAIN t : t[i].kind \in {"minor", "major"}}

LastCollectionRun(t) ==
    t[CHOOSE i \in CollectionsRun(t) : \A j \in CollectionsRun(t) : j <= i]

\* The allocation that made minor_collect_or_expand_inner collect still finds no room.
StillCannotAllocate(t) ==
    \E i \in DOMAIN t : t[i].kind = "allocate" /\ ~t[i].returned

C17_AllocationWitness ==
    /\ degraded_mode = 1
    /\ CollectionsRun(trace) # {}
    /\ LastCollectionRun(trace).fragment_total > 0
    /\ StillCannotAllocate(trace)


(***************************************************************************)
(* Claims about the allowance heuristic (SpecAllow).                       *)
(***************************************************************************)

\* The free heap space under max-heap-size.
FreeHeapSpace ==
    IF allocated_heap < max_heap_size THEN max_heap_size - allocated_heap ELSE 0

\* need_major_collection has just been asked with a space needed.
Asked == asked # NoQuestion

\* C18: need_major_collection (space_needed) is true exactly when space_needed
\* exceeds the free heap space or the bytes of major sections and of large objects
\* allocated since the last major collection (the latter floored at 0) exceed
\* minor_collection_allowance; a major collection rebases both counters.
C18_NeedMajorCollection ==
    /\ Asked => (asked.answer <=> (asked.space_needed > FreeHeapSpace \/ MajorDue))
    /\ EndedWithCollectNursery /\ trace[Len(trace) - 1].kind = "minor" =>
          (trace[Len(trace) - 1].due <=> MajorDue)
    /\ CollectionsRun(trace) # {} /\ LastCollectionRun(trace).kind = "major" =>
          /\ minor_collection_sections_alloced = 0
          /\ last_collection_los_memory_usage = los_memory_usage

\* Asked with room for the space needed: a major is due because of what was
\* allocated since the last one.
C18_Witness ==
    /\ Asked
    /\ asked.answer
    /\ asked.space_needed <= FreeHeapSpace
    /\ minor_collection_sections_alloced > 0

\* Asked after large objects were freed outside a collection: the bytes since the
\* last major are floored at 0.
C18_FlooredWitness ==
    /\ Asked
    /\ los_memory_usage < last_collection_los_memory_usage
    /\ minor_collection_sections_alloced > 0

\* Asked without room for the space needed and nothing due.
C18_NoSpaceWitness ==
    /\ Asked
    /\ asked.answer
    /\ ~MajorDue

\* A major collection that found sections allocated since the previous one.
C18_RebasedWitness ==
    /\ CollectionsRun(trace) # {}
    /\ LastCollectionRun(trace).kind = "major"
    /\ los_memory_usage > 0
    /\ last_collection_los_memory_alloced > 0


\* The computations of the allowance made by the entry point that ran last.
AllowanceComputations == {i \in DOMAIN trace : trace[i].kind = "allowance"}

\* C19 (as stated): after every computation of the allowance,
\* new_heap_size + minor_collection_allowance <= soft_heap_limit.
C19_WithinSoftHeapLimit ==
    \A i \in AllowanceComputations :
        trace[i].new_heap_size + trace[i].allowance <= soft_heap_limit

\* C19 (amended): after every computation of the allowance,
\* new_heap_size + minor_collection_allowance <= soft_heap_limit unless that would
\* need an allowance below MIN_MINOR_COLLECTION_ALLOWANCE, and then the allowance is
\* MIN_MINOR_COLLECTION_ALLOWANCE.
C19_WithinSoftHeapLimitOrMinimum ==
    \A i \in AllowanceComputations :
        \/ trace[i].new_heap_size + trace[i].allowance <= soft_heap_limit
        \/ /\ trace[i].allowance = MIN_MINOR_COLLECTION_ALLOWANCE
           /\ trace[i].new_heap_size + MIN_MINOR_COLLECTION_ALLOWANCE > soft_heap_limit

\* A computation that the soft heap limit cut down to what is left under the limit,
\* which is more than the minimum.
C19_Witness ==
    \E i \in AllowanceComputations :
        /\ trace[i].allowance > MIN_MINOR_COLLECTION_ALLOWANCE
        /\ trace[i].new_heap_size + trace[i].allowance = soft_heap_limit
        /\ trace[i].allowance_target > trace[i].allowance

\* A computation with the heap already over the soft limit.
C19_OverLimitWitness ==
    \E i \in AllowanceComputations :
        /\ trace[i].new_heap_size > soft_heap_limit
        /\ trace[i].allowance = MIN_MINOR_COLLECTION_ALLOWANCE


\* The upper clamp of a computation: the heap in use when it was made.
HeapInUse(c) == c.num_major_sections * section_size + c.los_memory_usage

\* C20 (as stated): after every computation of the allowance,
\* MIN_MINOR_COLLECTION_ALLOWANCE <= minor_collection_allowance
\*      <= num_major_sections * section_size + los_memory_usage,
\* and the allowance is at least the minimum in every state after initialization.
C20_AllowanceClamped ==
    /\ \A i \in AllowanceComputations :
          /\ MIN_MINOR_COLLECTION_ALLOWANCE <= trace[i].allowance
          /\ trace[i].allowance <= HeapInUse(trace[i])
    /\ minor_collection_allowance >= MIN_MINOR_COLLECTION_ALLOWANCE

\* C20 (amended): after every computation of the allowance,
\* MIN_MINOR_COLLECTION_ALLOWANCE <= minor_collection_allowance
\*      <= max (MIN_MINOR_COLLECTION_ALLOWANCE,
\*              num_major_sections * section_size + los_memory_usage),
\* and the allowance is at least the minimum in every state after initialization.
C20_AllowanceClampedMinimumFirst ==
    /\ \A i \in AllowanceComputations :
          /\ MIN_MINOR_COLLECTION_ALLOWANCE <= trace[i].allowance
          /\ trace[i].allowance <= MAX(MIN_MINOR_COLLECTION_ALLOWANCE, HeapInUse(trace[i]))
    /\ minor_collection_allowance >= MIN_MINOR_COLLECTION_ALLOWANCE

\* A computation whose target was above the heap in use, itself above the minimum:
\* the allowance is the heap in use.
C20_Witness ==
    \E i \in AllowanceComputations :
        /\ trace[i].allowance_target > HeapInUse(trace[i])
        /\ HeapInUse(trace[i]) > MIN_MINOR_COLLECTION_ALLOWANCE
        /\ trace[i].allowance = HeapInUse(trace[i])

\* A computation whose target was below the minimum, and one whose target stood.
C20_MinimumWitness ==
    \E i \in AllowanceComputations :
        /\ trace[i].allowance_target < MIN_MINOR_COLLECTION_ALLOWANCE
        /\ trace[i].allowance = MIN_MINOR_COLLECTION_ALLOWANCE

C20_TargetWitness ==
    \E i \in AllowanceComputations :
        /\ trace[i].allowance_target > MIN_MINOR_COLLECTION_ALLOWANCE
        /\ trace[i].allowance = trace[i].allowance_target

(***************************************************************************)
(* Claims about the registered roots, checked under SpecRoots.             *)
(***************************************************************************)

RECURSIVE RecordsSize(_)
RecordsSize(table) ==
    IF table = {} THEN 0
    ELSE LET r == CHOOSE x \in table : TRUE
         IN (r.end_root - r.start) + RecordsSize(table \ {r})

\* The sum of end_root - start over all records of the three root tables.
RootsTotal(hash) ==
    RecordsSize(hash[ROOT_TYPE_NORMAL]) + RecordsSize(hash[ROOT_TYPE_PINNED])
        + RecordsSize(hash[ROOT_TYPE_WBARRIER])

\* C21: after any sequence of mono_gc_register_root, mono_gc_register_root_wbarrier
\* and mono_gc_deregister_root calls roots_size is the sum of end_root - start over
\* the records of the three tables; registering a start that was in no table and
\* deregistering it leaves roots_size as it was, also when the start was registered
\* again with another size in between; deregistering an address that is in no
\* table changes neither the tables nor roots_size.
C21_RootsSizeIsSum ==
    /\ [](~root_aborted => roots_size = RootsTotal(roots_hash))
    /\ [](round_trip.state = "closed" => round_trip.after = round_trip.before)
    /\ [][root_call'.op = "deregister" /\ root_call'.found = NoTable
            => roots_hash' = roots_hash /\ roots_size' = roots_size]_vars

\* A start registered beside another root, registered again with another size and
\* then deregistered.
C21_Witness ==
    /\ round_trip.state = "closed"
    /\ round_trip.again
    /\ round_trip.before > 0
    /\ roots_size = round_trip.before

\* An address that is in no table has just been deregistered while roots remain.
C21_UnregisteredWitness ==
    /\ root_call.op = "deregister"
    /\ root_call.found = NoTable
    /\ roots_size > 0

TablesOf(hash, start) ==
    {i \in RootTypes : mono_sgen_hash_table_lookup(hash[i], start) # NoRoot}

RootRecords(hash) == hash[ROOT_TYPE_NORMAL] \cup hash[ROOT_TYPE_PINNED] \cup hash[ROOT_TYPE_WBARRIER]

\* C22: a start address is recorded in at most one of the three root tables;
\* registering a start that is already recorded changes end_root and the
\* descriptor of the record it has, in the table it is in whatever root type is
\* asked for, and adds no record; it is accepted only when the old and the new
\* descriptor are both null or both non-null; every record of the pinned table
\* has a null descriptor and every record of the normal table a non-null one.
C22_OneRecordPerStart ==
    /\ [](\A start \in RootStarts :
            /\ Cardinality(TablesOf(roots_hash, start)) <= 1
            /\ Cardinality({r \in RootRecords(roots_hash) : r.start = start}) <= 1)
    /\ [](/\ \A r \in roots_hash[ROOT_TYPE_PINNED] : r.root_desc = NULL
          /\ \A r \in roots_hash[ROOT_TYPE_NORMAL] : r.root_desc # NULL)
    /\ [][root_call'.op = "register" /\ root_call'.found # NoTable
            => LET i == root_call'.found
                   start == root_call'.start
                   old == mono_sgen_hash_table_lookup(roots_hash[i], start)
                   new == mono_sgen_hash_table_lookup(roots_hash'[i], start)
               IN /\ TablesOf(roots_hash', start) = {i}
                  /\ \A j \in RootTypes :
                       {r \in roots_hash'[j] : r.start # start}
                           = {r \in roots_hash[j] : r.start # start}
                  /\ root_aborted' <=> ((old.root_desc = NULL) # (root_call'.descr = NULL))
                  /\ ~root_aborted' =>
                       /\ new.end_root = start + root_call'.size
                       /\ new.root_desc = root_call'.descr]_vars

\* A start recorded in one table has been registered again with another root
\* type and another size, and the call was accepted.
C22_Witness ==
    /\ root_call.op = "register"
    /\ root_call.found # NoTable
    /\ root_call.found # root_call.root_type
    /\ ~root_aborted
    /\ mono_sgen_hash_table_lookup(roots_hash[root_call.found], root_call.start).end_root
           = root_call.start + root_call.size
    /\ Cardinality(RootRecords(roots_hash)) > 1

\* A registration with a descriptor for a start recorded without one was refused.
C22_RefusedWitness ==
    /\ root_aborted
    /\ root_call.descr # NULL
    /\ root_call.found = ROOT_TYPE_PINNED

(***************************************************************************)
(* Claims about hidden pointers, checked under SpecLinks.                  *)
(***************************************************************************)

\* C23: for an object address p aligned to 4 bytes and either track flag,
\* REVEAL_POINTER (HIDE_POINTER (p, track)) = p, the hidden word is not 0 and is
\* not p, and the track flag can be read from the lowest bit of the hidden word;
\* mono_gc_weak_link_get returns NULL exactly when the link word is 0 and the
\* revealed address otherwise.
C23_HideReveal ==
    /\ hidden_object # NULL =>
         /\ link_word = HIDE_POINTER(hidden_object, hidden_track)
         /\ REVEAL_POINTER(link_word) = hidden_object
         /\ link_word # 0
         /\ link_word # hidden_object
         /\ hidden_track <=> (link_word % 2 = 0)
    /\ got.called =>
         /\ got.result = NULL <=> got.word = 0
         /\ got.word # 0 => got.result = hidden_object /\ got.result = REVEAL_POINTER(got.word)

\* The link hides an object with tracking and mono_gc_weak_link_get has returned it.
C23_Witness ==
    /\ got.called
    /\ hidden_track
    /\ hidden_object # NULL
    /\ got.result = hidden_object

\* mono_gc_weak_link_get has been called on a link that was removed.
C23_NullWitness ==
    /\ got.called
    /\ got.word = 0
    /\ got.result = NULL

(***************************************************************************)
(* Claims about the steps of finish_gray_stack, checked under SpecFgs.     *)
(***************************************************************************)

StepNames(g) == [i \in DOMAIN g.steps |-> g.steps[i].step]

JobSteps == {"job_finish_remembered_set_scan", "job_scan_from_registered_roots",
             "job_scan_thread_data", "job_scan_finalizer_entries"}

\* Where mono_sgen_workers_join is called in the steps of a collection.
JoinAt(g) == CHOOSE i \in DOMAIN g.steps : g.steps[i].step = "mono_sgen_workers_join"

\* The steps of finish_gray_stack: what follows the join.
FinishSteps(g) == SubSeq(StepNames(g), JoinAt(g) + 1, Len(g.steps))

\* A sequence of steps without the drains of the gray queue and with a step that
\* is repeated in a row (a loop, or the second application to the nursery
\* tables) named once.
RECURSIVE StepOrder(_)
StepOrder(q) ==
    IF q = <<>> THEN <<>>
    ELSE LET rest == StepOrder(Tail(q))
         IN IF Head(q) = "mono_sgen_drain_gray_stack" THEN rest
            ELSE IF rest # <<>> /\ Head(rest) = Head(q) THEN rest
            ELSE <<Head(q)>> \o rest

\* The order of the steps the gray-stack finisher is to follow.
FinisherOrder(g) ==
    <<"mono_sgen_bridge_reset_data", "mark_ephemerons_in_range", "mono_sgen_scan_togglerefs">>
    \o (IF g.bridge.processing THEN <<"collect_bridge_objects">> ELSE <<>>)
    \o <<"null_link_in_range before", "finalize_in_range", "mark_ephemerons_in_range",
         "clear_unreachable_ephemerons", "null_link_in_range after">>

\* The steps that work on the tables kept per generation.
TableSteps(g) ==
    {"mono_sgen_scan_togglerefs", "null_link_in_range before", "finalize_in_range",
     "null_link_in_range after"}
    \cup (IF g.bridge.processing THEN {"collect_bridge_objects"} ELSE {})

\* The steps that walk the one list of ephemeron arrays with the range of the
\* collection.
ListSteps == {"mark_ephemerons_in_range", "clear_unreachable_ephemerons"}

\* The step was applied to the nursery: to its tables, or with a range that
\* holds the nursery (in a major collection the range is the whole heap).
AppliedToNursery(g, name) ==
    \E i \in DOMAIN g.steps :
        /\ g.steps[i].step = name
        /\ \/ g.steps[i].generation = "nursery"
           \/ name \in ListSteps /\ \A o \in Objects : in_range(g, o)

\* What the weak structures hold when finish_gray_stack has returned: nothing
\* in the range of the collection that the collection did not reach.
NothingUnreachedLeft(g) ==
    /\ \A k \in LinkKinds : g.links[k] # NULL => object_is_reachable(g, g.links[k])
    /\ \A o \in g.fin_hash : g.obj[o].alive => object_is_reachable(g, o)
    /\ g.eph.listed =>
         /\ g.eph.key \notin {NULL, tombstone} => object_is_reachable(g, g.eph.key)
         /\ g.eph.key0 \notin {NULL, tombstone} => object_is_reachable(g, g.eph.key0)

\* C24: in minor and major collections the worker jobs are joined before
\* finish_gray_stack starts; finish_gray_stack drains the gray queue, resets the
\* bridge data, runs the first ephemeron fixed-point, the togglerefs, the
\* collection of bridge objects, the nulling of the non-tracking links, the
\* finalization loop, the second ephemeron fixed-point, the clearing of the
\* unreachable ephemerons and the nulling of the tracking links, in this order;
\* the gray queue is empty when it returns; in a major collection every step
\* that takes a range is applied to the nursery as well.
C24_FinisherOrder ==
    \A g \in FinishedCollections :
        /\ Cardinality({i \in DOMAIN g.steps : g.steps[i].step = "mono_sgen_workers_join"}) = 1
        /\ \A i \in DOMAIN g.steps : g.steps[i].step \in JobSteps <=> i < JoinAt(g)
        /\ Head(FinishSteps(g)) = "mono_sgen_drain_gray_stack"
        /\ StepOrder(FinishSteps(g)) = FinisherOrder(g)
        /\ g.gray = <<>>
        /\ g.generation = "old" =>
              /\ \A name \in TableSteps(g) \cup ListSteps : AppliedToNursery(g, name)
              /\ \A name \in TableSteps(g) :
                    \E i \in DOMAIN g.steps :
                        g.steps[i].step = name /\ g.steps[i].generation = "old"
              /\ NothingUnreachedLeft(g)

\* A major collection with bridge processing that starts now finds unreachable
\* nursery objects in the finalizable hash, behind the tracking link and as the
\* key of an ephemeron pair, and queues one of them.
C24_Witness ==
    /\ bridge.processing
    /\ fin_log # <<>>
    /\ froot = NULL
    /\ finalizable_hash # {}
    /\ dislinks["track"] = 1
    /\ \A o \in Objects : fobj[o].alive /\ fobj[o].gen = 0
    /\ \E g \in FinishedCollections :
          /\ g.generation = "old"
          /\ g.queued # {}
          /\ g.eph.key = tombstone

\* The passes of the ephemeron loops of a collection that returned 0 and were
\* followed by a pass that returned 0 as well.
LongestMarkingRun(g) ==
    LET runs == {r \in 0..Len(g.eph_log) :
                    \E i \in 1..(Len(g.eph_log) - r + 1) :
                        \A j \in i..(i + r - 1) : ~g.eph_log[j].nothing_marked}
    IN CHOOSE r \in runs : \A x \in runs : x <= r

\* C25: each ephemeron loop of finish_gray_stack terminates:
\* mark_ephemerons_in_range returns 1 exactly when it found no pair with a
\* reachable key and an unreachable non-null value, that is when the pass marked
\* nothing; a pass that returns 0 makes at least one object reachable that was
\* not; each loop ends with the first pass that returns 1, after at most as many
\* passes as there are objects plus one.
C25_EphemeronLoopsTerminate ==
    \A g \in FinishedCollections :
        /\ \A i \in DOMAIN g.eph_log :
              LET pass == g.eph_log[i]
              IN /\ pass.nothing_marked <=> pass.marked = {}
                 /\ ~pass.nothing_marked =>
                       /\ pass.before \subseteq pass.after
                       /\ pass.after # pass.before
                       /\ pass.marked \subseteq pass.after \ pass.before
        /\ Cardinality({i \in DOMAIN g.eph_log : g.eph_log[i].nothing_marked}) = 2
        /\ g.eph_log[Len(g.eph_log)].nothing_marked
        /\ LongestMarkingRun(g) + 1 <= Cardinality(Objects) + 1

\* After a collection, a collection that starts now needs three passes in one
\* ephemeron loop: the value marked by the first pass is the key of a pair that
\* the second pass finds.
C25_Witness ==
    /\ fin_log # <<>>
    /\ \E g \in FinishedCollections :
          /\ Len(g.eph_log) >= 3
          /\ ~g.eph_log[1].nothing_marked
          /\ ~g.eph_log[2].nothing_marked
          /\ g.eph_log[3].nothing_marked
          /\ g.eph_log[2].marked # {}

\* The passes of the finalization loop of a collection that queued objects.
QueuingPasses(g) == {i \in DOMAIN g.fin_passes : g.fin_passes[i] > 0}

\* C26: the finalization loop of finish_gray_stack terminates and ends with the
\* first pass that leaves num_ready_finalizers unchanged; with bridge processing
\* at most one pass queues new fin-ready objects, so num_loops <= 1 holds where it
\* is asserted, also when a fin-ready object references another unreachable
\* object that has a finalizer.
C26_FinalizationLoop ==
    \A g \in FinishedCollections :
        /\ g.fin_passes # <<>>
        /\ \A i \in DOMAIN g.fin_passes : g.fin_passes[i] = 0 <=> i = Len(g.fin_passes)
        /\ g.num_loops = Cardinality(QueuingPasses(g))
        /\ g.num_ready = num_ready_finalizers + Cardinality(g.queued)
        /\ mono_sgen_need_bridge_processing(g) =>
              /\ Cardinality(QueuingPasses(g)) <= 1
              /\ g.num_loops <= 1

\* With bridge processing on and after a collection, a collection that starts now
\* queues an unreachable object with a finalizer that references another
\* unreachable object with a finalizer, and queues that one in the same pass.
C26_Witness ==
    /\ bridge.processing
    /\ fin_log # <<>>
    /\ froot = NULL
    /\ \E o \in finalizable_hash :
          /\ fobj[o].ref \in finalizable_hash \ {o}
          /\ \E g \in FinishedCollections :
                /\ {o, fobj[o].ref} \subseteq g.queued
                /\ g.fin_passes = <<2, 0>>
                /\ g.num_loops = 1

(***************************************************************************)
(* Claims about the fin-ready lists as roots, checked under SpecFin.       *)
(***************************************************************************)

\* C27: an object held by an entry of fin_ready_list or critical_fin_list whose
\* finalizer has not started is a root of every later collection, minor or
\* major: it is not reclaimed, and the entry holds no stale address, until
\* mono_gc_invoke_finalizers takes the object out of the entry.
C27_FinReadyEntriesAreRoots ==
    \A i \in DOMAIN fin_ready_list : fobj[fin_ready_list[i]].alive


\* The specification of Part 8 with the scheduling the finalizer callers have: a
\* caller that can take its next step takes it, and mono_gc_invoke_finalizers is
\* called again and again (the finalizer thread is woken after every collection
\* that leaves entries); a caller waiting in LOCK_GC gets the mutex in the end.
\* The step of caller t that does not wait: a caller is at one control point, so
\* at most one of the disjuncts is enabled.
invoke_finalizers_step(t) ==
    \/ invoke_finalizers_begin(t)
    \/ invoke_finalizers_while(t)
    \/ invoke_finalizers_section(t)
    \/ invoke_finalizers_run(t)
    \/ invoke_finalizers_return(t)

FairInv ==
    \A t \in Threads :
        /\ WF_vars(invoke_finalizers_step(t))
        /\ SF_vars(invoke_finalizers_lock(t))

SpecInvFair == InitInv /\ [][NextInv]_vars /\ FairInv

UntakenEntries == Untaken(fin_ready_list) \cup Untaken(critical_fin_list)

\* The callers that took the object of entry o and have not run its finalizer yet.
TakenBy(o) == {t \in Threads : inv[t].pc = "run" /\ inv[t].obj = o}

\* Entry o is in exactly one place: waiting in a list with its object, taken by
\* exactly one caller that is about to run the finalizer, or finalized once.
OnePlace(o) ==
    /\ Cardinality(TakenBy(o)) <= 1
    /\ Cardinality({k \in {"untaken", "taken", "finalized"} :
                      \/ k = "untaken" /\ o \in UntakenEntries
                      \/ k = "taken" /\ TakenBy(o) # {}
                      \/ k = "finalized" /\ finalizer_runs[o] >= 1}) = 1

\* The lists hold each entry that was queued and not freed exactly once.
ListsIntact ==
    /\ ~list_corrupt
    /\ \A o \in Objects : entry_frees[o] <= 1
    /\ EntryIds(fin_ready_list) \cup EntryIds(critical_fin_list)
           = {o \in queued : entry_frees[o] = 0}
    /\ Len(fin_ready_list) + Len(critical_fin_list)
           = Cardinality({o \in queued : entry_frees[o] = 0})

InvokeState ==
    /\ \A o \in Objects : finalizer_runs[o] <= 1
    /\ \A o \in queued : OnePlace(o)
    /\ num_ready_finalizers = Cardinality(UntakenEntries)
    /\ \A t \in Threads : /\ inv[t].pc = "run" => gc_lock # t
                          /\ inv[t].pc = "locked" <=> gc_lock = t
                          /\ inv[t].pc = "return" => inv[t].entry = NULL
    /\ ListsIntact
    /\ \A t \in Threads : IF inv_result[t].open THEN inv[t].count = inv_result[t].ran
                          ELSE inv_result[t].count = inv_result[t].ran

\* A step that takes an object from an entry or lowers num_ready_finalizers is
\* taken by the holder of the GC lock, and takes one object and lowers by one.
TakenUnderLock ==
    (UntakenEntries' \ UntakenEntries = {} /\ UntakenEntries' # UntakenEntries)
        \/ num_ready_finalizers' < num_ready_finalizers
    => /\ gc_lock \in Threads
       /\ inv[gc_lock].pc = "locked"
       /\ inv'[gc_lock].obj \in UntakenEntries
       /\ UntakenEntries' = UntakenEntries \ {inv'[gc_lock].obj}
       /\ num_ready_finalizers' = num_ready_finalizers - 1

\* An entry is freed by the caller that took it, in the locked part of the
\* iteration after the one that ran its finalizer.
FreedBySameCaller ==
    \A o \in Objects :
        entry_frees'[o] # entry_frees[o]
        => /\ gc_lock \in Threads
           /\ inv[gc_lock].pc = "locked"
           /\ inv[gc_lock].entry = o
           /\ finalizer_runs[o] = 1
           /\ \A x \in Objects \ {o} : entry_frees'[x] = entry_frees[x]

\* C28: however calls of mono_gc_invoke_finalizers interleave with collections
\* that push entries at the list heads, every queued entry has its finalizer
\* run exactly once (never twice, and eventually once); its object is taken
\* and nulled and num_ready_finalizers lowered under the GC lock; the
\* finalizer runs with the lock released; the entry is unlinked and freed by
\* the same caller in its next iteration and no other entry is lost or freed
\* twice; the returned count is the number of finalizers the call ran.
C28_InvokeFinalizersExactlyOnce ==
    /\ []InvokeState
    /\ [][TakenUnderLock /\ FreedBySameCaller]_vars
    /\ \A o \in Objects : (o \in queued) ~> (finalizer_runs[o] = 1 /\ entry_frees[o] = 1)

\* A caller in its second iteration is about to run a finalizer while a
\* collection has pushed a new entry in front of the entry it took.
C28_Witness ==
    \E t \in Threads :
        /\ inv[t].pc = "run"
        /\ inv[t].count >= 1
        /\ Len(fin_ready_list) >= 2
        /\ fin_ready_list[1].object # NULL
        /\ fin_ready_list[2].id = inv[t].entry
        /\ \E u \in Threads \ {t} : inv[u].pc = "LOCK_GC"


\* Every entry that is queued and not yet freed is in exactly one of the two
\* lists: the critical list if and only if the class of its object derives
\* from the critical-finalizer class.
PlacedOnOneList ==
    \A o \in {x \in queued : entry_frees[x] = 0} :
        /\ (o \in EntryIds(critical_fin_list)) # (o \in EntryIds(fin_ready_list))
        /\ o \in EntryIds(critical_fin_list) <=> has_critical_finalizer(o)

\* The step that runs the finalizer of a critical entry.
StartsCritical(t) ==
    /\ inv[t].pc = "run"
    /\ inv[t].entry_is_critical
    /\ inv'[t].pc = "while"
    /\ finalizer_runs'[inv[t].obj] = finalizer_runs[inv[t].obj] + 1

\* The step that takes the object of a critical entry, under the GC lock.
TakesCritical(t) ==
    /\ inv[t].pc = "locked"
    /\ inv'[t].pc = "run"
    /\ inv'[t].entry_is_critical

\* C29 as stated: an object queued for finalization is on exactly one list, the
\* critical list iff its class derives from the critical-finalizer class, and
\* no critical finalizer is started while the ordinary fin-ready list holds an
\* entry whose object has not been taken.
C29_NeverStartsCriticalEarly ==
    /\ []PlacedOnOneList
    /\ [][\A t \in Threads : StartsCritical(t) => Untaken(fin_ready_list) = {}]_vars

\* C29, amended: an object queued for finalization is on exactly one list, the
\* critical list iff its class derives from the critical-finalizer class, and
\* mono_gc_invoke_finalizers never takes a critical entry for finalization
\* (under the GC lock) while the ordinary fin-ready list holds an entry whose
\* object has not been taken; a collection may still push an ordinary entry
\* between that moment and the start of the critical finalizer.
C29_NeverTakesCriticalEarly ==
    /\ []PlacedOnOneList
    /\ [][\A t \in Threads :
            TakesCritical(t) => /\ Untaken(fin_ready_list) = {}
                                /\ Untaken(fin_ready_list') = {}
                                /\ has_critical_finalizer(inv'[t].obj)]_vars

\* A critical entry was taken after the ordinary entries were, and a collection
\* has pushed an ordinary entry before its finalizer starts.
C29_Witness ==
    \E t \in Threads :
        /\ inv[t].pc = "run"
        /\ inv[t].entry_is_critical
        /\ has_critical_finalizer(inv[t].obj)
        /\ Untaken(fin_ready_list) # {}
        /\ \E o \in Objects : ~has_critical_finalizer(o) /\ finalizer_runs[o] = 1


\* The collector is past acquire_gc_locks and has not begun release_gc_locks.
InCollection(t) ==
    /\ lfn[t] = "collection"
    /\ NextOp(t) \in {"mono_sgen_thread_handshake TRUE", "collect",
                      "mono_thread_info_suspend_unlock"}

\* The collector holds the interruption mutex: from LOCK_INTERRUPTION in
\* stop_world to UNLOCK_INTERRUPTION in restart_world.
HoldsGCLocks(t) ==
    /\ lfn[t] = "collection"
    /\ NextOp(t) \in {"mono_thread_info_suspend_lock", "mono_sgen_thread_handshake TRUE",
                      "collect", "mono_thread_info_suspend_unlock", "UNLOCK_INTERRUPTION"}

\* The thread can take its next step.
CanStep(t) ==
    /\ Runs(t)
    /\ NextOp(t) \in LockOps => Owner(MutexOf(NextOp(t))) = NoThread

\* The thread t cannot step before: the collector that suspended it, or the
\* owner of the mutex it waits for.
WaitsFor(t) ==
    IF t \in suspended
    THEN IF \E c \in Threads \ suspended : lfn[c] = "collection"
         THEN CHOOSE c \in Threads \ suspended : lfn[c] = "collection"
         ELSE NoThread
    ELSE Owner(MutexOf(NextOp(t)))

RECURSIVE WillStep(_, _)
\* Following at most n waits from t leads to a thread that can step.
WillStep(t, n) ==
    \/ t \in Threads /\ CanStep(t)
    \/ t \in Threads /\ n > 0 /\ WillStep(WaitsFor(t), n - 1)

\* No thread inside one of the functions is in a cycle of waits.
NoDeadlock == \A t \in Threads : lprog[t] # <<>> => WillStep(t, NThreads)

LockDiscipline ==
    /\ \A t \in Threads :
          /\ suspend_lock = t => interruption_lock = t /\ lfn[t] = "collection"
          /\ InCollection(t) => gc_lock = t /\ interruption_lock = t /\ suspend_lock = t
          /\ HoldsGCLocks(t) <=> (interruption_lock = t /\ lfn[t] = "collection")
          /\ lfn[t] = "collection" /\ NextOp(t) \in {"collect", "mono_thread_info_suspend_unlock",
                                                      "UNLOCK_INTERRUPTION",
                                                      "mono_sgen_thread_handshake FALSE"}
             <=> suspended = Threads \ {t}
    /\ \A u \in Threads :
          NextOp(u) = "func"
          => /\ interruption_lock = u
             /\ u \notin suspended
             /\ \A t \in Threads : ~HoldsGCLocks(t)

\* The other threads are resumed after both locks were released, the suspend
\* lock first.
ReleasedBeforeResume ==
    /\ suspended # {} /\ suspended' = {}
       => interruption_lock = NoThread /\ suspend_lock = NoThread
    /\ \A t \in Threads :
          lfn[t] = "collection" /\ interruption_lock = t /\ interruption_lock' # t
          => suspend_lock # t /\ suspended # {}
    /\ \A t \in Threads :
          suspend_lock # t /\ suspend_lock' = t => interruption_lock = t /\ suspended = {}

\* The callback func takes no step while a collector holds the locks.
CallbackOutside ==
    \A u \in Threads :
        NextOp(u) = "func" /\ lprog'[u] # lprog[u] => \A t \in Threads : ~HoldsGCLocks(t)

\* C30: stop_world takes the interruption mutex and then the thread-info
\* suspend lock, both are held through the whole collection, and
\* restart_world releases them in the reverse order before it resumes the
\* other threads; a callback run by mono_gc_invoke_with_gc_lock never executes
\* from the moment stop_world holds the interruption mutex to its release in
\* restart_world, and no interleaving of the lock users deadlocks.
C30_GCLocksOrderedAndHeld ==
    /\ [](LockDiscipline /\ NoDeadlock)
    /\ [][ReleasedBeforeResume /\ CallbackOutside]_vars

\* A collector is in the collection with both locks while the other thread,
\* suspended, is waiting for the interruption mutex to run its callback.
C30_Witness ==
    \E t \in Threads, u \in Threads :
        /\ lfn[t] = "collection"
        /\ NextOp(t) = "collect"
        /\ interruption_lock = t
        /\ suspend_lock = t
        /\ lfn[u] = "mono_gc_invoke_with_gc_lock"
        /\ NextOp(u) = "LOCK_INTERRUPTION"
        /\ u \in suspended


(***************************************************************************)
(* Claims about the termination of stop_world, checked under SpecSTW.      *)
(***************************************************************************)

\* The threads the collector suspended and did not find dead: those that are
\* suspended, and those that stopped existing while they were suspended.
ActuallySuspended ==
    {t \in Threads : \/ tstate[t] = "suspended"
                     \/ /\ tstate[t] = "dead"
                        /\ t # Collector
                        /\ ~info[t].skip
                        /\ ~info[t].gc_disabled}

\* stop_world has returned and the collection has not restarted the world yet.
StopWorldReturned == world_stopped /\ pc \notin {"idle", "return"}

\* The count stop_world returns is not negative and is the number of threads
\* that are suspended.
C31_CountIsSuspended ==
    StopWorldReturned => count >= 0 /\ count = Cardinality(ActuallySuspended)

\* C31: restart_threads_until_none_in_managed_allocator terminates and
\* stop_world returns a count >= 0 equal to the number of threads actually
\* suspended: after re-suspending, the loop waits only for the acknowledgements
\* of the threads it re-suspended, so a thread that died between resume and
\* re-suspend cannot block stop_world.
C31_WaitsOnlyForResuspended ==
    /\ pc = "wait_suspend_ack" =>
          /\ resuspend_ack_count = restarted_count
          /\ ENABLED wait_suspend_ack
    /\ C31_CountIsSuspended


(***************************************************************************)
(* Claims about need_calculate_minor_collection_allowance and the          *)
(* allowance computation, checked under SpecAllow.                         *)
(***************************************************************************)

\* The allowance computations a collection made, in the trace it returns.
ComputedIn(g) == {i \in DOMAIN g.trace : g.trace[i].kind = "allowance"}

\* The collection computed the allowance once and cleared the flag.
ComputedOnce(g) ==
    /\ Cardinality(ComputedIn(g)) = 1
    /\ ~g.need_calculate_minor_collection_allowance
    /\ \A i \in ComputedIn(g) : g.minor_collection_allowance = g.trace[i].allowance

\* What a major collection started in state g and ended in state m did with the
\* flag: try_calculate_minor_collection_allowance (TRUE) found it set, and
\* computed the allowance if the sweep was finished.
MajorOutcome(g, m) ==
    IF m.have_swept
    THEN ComputedOnce(m)
    ELSE /\ m.need_calculate_minor_collection_allowance
         /\ m.minor_collection_allowance = MIN_MINOR_COLLECTION_ALLOWANCE
         /\ ComputedIn(m) = {}

\* What a minor collection started in state g and ended in state n did.
MinorOutcome(g, n) ==
    IF g.need_calculate_minor_collection_allowance /\ g.have_swept
          /\ ~g.disable_minor_collections
    THEN ComputedOnce(n)
    ELSE /\ n.need_calculate_minor_collection_allowance
             = g.need_calculate_minor_collection_allowance
         /\ n.minor_collection_allowance = g.minor_collection_allowance
         /\ ComputedIn(n) = {}

AllowanceFlagInCollections ==
    /\ \A m \in MajorDoCollection(DrvState, "user request") : MajorOutcome(DrvState, m)
    /\ \A n \in CollectNursery(DrvState) : MinorOutcome(DrvState, n)

\* The flag is set by a major collection only, and cleared only by a step that
\* computed the allowance with the sweep finished.
AllowanceFlagSteps ==
    /\ ~need_calculate_minor_collection_allowance
          /\ need_calculate_minor_collection_allowance'
       => \E i \in DOMAIN trace' : trace'[i].kind = "major"
    /\ need_calculate_minor_collection_allowance
          /\ ~need_calculate_minor_collection_allowance'
       => /\ have_swept'
          /\ \E i \in DOMAIN trace' : trace'[i].kind = "allowance"
    /\ minor_collection_allowance' # minor_collection_allowance
       => \E i \in DOMAIN trace' : trace'[i].kind \in {"major", "allowance"}

\* C32: need_calculate_minor_collection_allowance is set at the start of every
\* major collection and cleared only by a computation made after the sweep:
\* try_calculate_minor_collection_allowance (TRUE) at the end of a major finds
\* the flag set; with the sweep unfinished it sets the allowance to
\* MIN_MINOR_COLLECTION_ALLOWANCE and leaves the flag set; the allowance is
\* then computed once, by the first later minor collection that finds
\* have_swept set; a minor with the flag clear does not change the allowance.
C32_AllowanceFlag ==
    /\ []AllowanceFlagInCollections
    /\ [][AllowanceFlagSteps]_vars

\* A major collection left the flag set because the sweep was not finished, the
\* sweep finished, and the minor collection that ran last computed the allowance.
C32_Witness ==
    /\ AllowanceComputations # {}
    /\ \A i \in DOMAIN trace : trace[i].kind # "major"
    /\ \E i \in DOMAIN trace : trace[i].kind = "minor"
    /\ ~need_calculate_minor_collection_allowance
    /\ have_swept
    /\ minor_collection_allowance > MIN_MINOR_COLLECTION_ALLOWANCE


\* The allowance computations made at the end of a major collection: the entry
\* of the trace that follows is the end of that major.
ComputedByMajor ==
    {i \in AllowanceComputations : i < Len(trace) /\ trace[i + 1].kind = "major"}

\* What the LOS gave back in the major collection the computation is about: its
\* usage at the start of that major minus its usage at the end, at least 1.  At
\* the end of the major the usage is los_memory_usage; a later minor finds it
\* in last_collection_los_memory_usage.
LosMemorySavedBy(e, at_major) ==
    MAX(e.last_collection_old_los_memory_usage
          - (IF at_major THEN e.los_memory_usage ELSE e.last_collection_los_memory_usage),
        1)

\* C33: in every allowance computation los_memory_saved is the LOS usage at the
\* start of the last major minus the LOS usage at the end of that same major,
\* floored at 1; it never exceeds last_collection_old_los_memory_usage (the
\* unsigned subtraction does not wrap), also when the computation runs at the
\* end of the major or after a domain unload freed LOS memory; the denominator
\* of the ratio is at least 1.
C33_LosMemorySaved ==
    \A i \in AllowanceComputations :
        /\ trace[i].los_memory_saved = LosMemorySavedBy(trace[i], i \in ComputedByMajor)
        /\ trace[i].los_memory_saved <= MAX(trace[i].last_collection_old_los_memory_usage, 1)
        /\ trace[i].denominator >= 1

\* The part of C33 that is about the wrap-around alone.
C33_NoWrapAround ==
    \A i \in AllowanceComputations :
        trace[i].los_memory_saved <= MAX(trace[i].last_collection_old_los_memory_usage, 1)

\* The part of C33 that is about the computations made by a minor collection.
C33_SavedInDeferredComputation ==
    \A i \in AllowanceComputations \ ComputedByMajor :
        /\ trace[i].los_memory_saved = LosMemorySavedBy(trace[i], FALSE)
        /\ trace[i].los_memory_saved <= MAX(trace[i].last_collection_old_los_memory_usage, 1)
        /\ trace[i].denominator >= 1


(***************************************************************************)
(* Claims about mono_sgen_sort_addresses, checked under SpecSort.          *)
(***************************************************************************)

\* How often address x is among the first size entries of the array.
Occurrences(a, size, x) == Cardinality({i \in 0..(size - 1) : a[i] = x})

\* C34: mono_sgen_sort_addresses (array, size) terminates and leaves the array
\* a permutation of its input in non-decreasing address order, for every
\* size >= 0, sizes 0 and 1 and inputs with duplicate addresses included.
C34_SortAddresses ==
    sort_output.returned =>
        LET in == sort_input.array
            out == sort_output.array
            size == sort_input.size
        IN /\ DOMAIN out = DOMAIN in
           /\ \A x \in SortAddresses : Occurrences(out, size, x) = Occurrences(in, size, x)
           /\ \A i \in 0..(size - 2) : out[i] <= out[i + 1]
           /\ \A i \in DOMAIN in : i >= size => out[i] = in[i]
           /\ sort_output.steps <= size * size * 2

\* An unsorted array with a duplicate address was sorted, its last entry not
\* being part of the call.
C34_Witness ==
    /\ sort_output.returned
    /\ sort_input.size = MaxArray - 1
    /\ DOMAIN sort_input.array = 0..(MaxArray - 1)
    /\ sort_input.array[0] > sort_input.array[1]
    /\ sort_input.array[1] = sort_input.array[2]
    /\ sort_output.array # sort_input.array

\* The calls with no element and with one element return.
C34_SmallWitness ==
    /\ sort_output.returned
    /\ sort_input.size = 0
    /\ sort_input.array # <<>>


(***************************************************************************)
(* Claims about pin_objects_from_addresses, checked under SpecPin.         *)
(***************************************************************************)

\* The candidates the section was handed over with.
PinCandidates ==
    {pin_before.pin_queue[i] : i \in 0..(pin_before.pin_queue_num_entries - 1)}

\* The objects, placeholders excluded, whose [start, start + aligned size) holds
\* a candidate.
HoldsCandidate ==
    {o \in SectionSlots :
        /\ pin_before.mem[o].kind = "object"
        /\ \E addr \in PinCandidates :
              addr >= o /\ addr < o + ALIGN_UP(pin_before.mem[o].size)}

\* The candidates that lie in a zeroed gap, inside a placeholder, or at the end
\* of an object.
InNoObject ==
    {addr \in PinCandidates :
        \A o \in SectionSlots :
           pin_before.mem[o].kind = "object" =>
              ~(addr >= o /\ addr < o + ALIGN_UP(pin_before.mem[o].size))}

\* C35: given sorted candidate addresses inside a section,
\* pin_objects_from_addresses pins exactly the objects, never a fill placeholder,
\* whose [start, start + aligned size) holds a candidate, writes their starts in
\* strictly increasing order over the front of the array, enqueues each once and
\* returns their number; mono_sgen_pin_objects_in_section stores that number and
\* nulls pin_queue_start when it is 0.
C35_PinsExactlyCandidateObjects ==
    pin_outcome.called =>
        IF pin_before.pin_queue_num_entries = 0
        THEN pin_section = pin_before /\ pin_outcome.pinned = {} /\ pin_outcome.gray = <<>>
        ELSE LET reduced_to == pin_outcome.count
                 front == pin_section.pin_queue
             IN /\ ~pin_outcome.strayed
                /\ pin_outcome.pinned = HoldsCandidate
                /\ reduced_to = Cardinality(HoldsCandidate)
                /\ {front[i] : i \in 0..(reduced_to - 1)} = HoldsCandidate
                /\ \A i \in 0..(reduced_to - 2) : front[i] < front[i + 1]
                /\ Len(pin_outcome.gray) = reduced_to
                /\ {pin_outcome.gray[i] : i \in 1..reduced_to} = HoldsCandidate
                /\ pin_section.pin_queue_num_entries = reduced_to
                /\ pin_section.pin_queue_start = (reduced_to # 0)
                /\ pin_section.mem = pin_before.mem

\* Three candidates that pinned two objects: two of them in one object of
\* unaligned size, one in no object.
C35_Witness ==
    /\ pin_outcome.called
    /\ pin_before.pin_queue_num_entries = 3
    /\ pin_outcome.count = 2
    /\ InNoObject # {}
    /\ \E o \in HoldsCandidate : pin_before.mem[o].size % ALLOC_ALIGN # 0

\* Candidates inside a fill placeholder and in a zeroed gap pinned nothing.
C35_NothingPinnedWitness ==
    /\ pin_outcome.called
    /\ pin_outcome.count = 0
    /\ ~pin_section.pin_queue_start
    /\ \E a \in PinCandidates : \E o \in SectionSlots :
          pin_before.mem[o].kind = "fill" /\ a > o /\ a < o + pin_before.mem[o].size
    /\ \E a \in PinCandidates : pin_before.mem[a - (a % ALLOC_ALIGN)] = Zeroed


(***************************************************************************)
(* Claims about the large objects in a major collection, checked under     *)
(* SpecLos.                                                                *)
(***************************************************************************)

LosListed(l) == {l[i] : i \in DOMAIN l}

\* The large objects of the list that hold a candidate of the pin queue.
LosHoldsCandidate ==
    {o \in LosListed(los_in.list) :
        \E k \in DOMAIN los_in.pin_queue :
           /\ los_in.pin_queue[k] >= LosData(o)
           /\ los_in.pin_queue[k] < LosData(o) + LosSize(o)}

\* The large objects already carrying the mark.
LosPinned == {o \in LosIds : los_objects[o].pinned}

\* C36: in a major collection a large object is pinned and enqueued from the pin
\* queue iff a candidate lies in [data, data + size); the sweep of the list runs
\* only after finish_gray_stack, frees every object that is not marked and keeps
\* and unpins every marked one, so that afterwards no large object is pinned and
\* los_object_list holds exactly the marked objects in their previous order.
LosPinnedAndSwept ==
    /\ los_pc \notin {"idle", "pin_large_objects"} =>
          /\ los_trace.pinned_from_queue = LosHoldsCandidate
          /\ LosListed(los_trace.enqueued_from_queue) = LosHoldsCandidate
          /\ Len(los_trace.enqueued_from_queue) = Cardinality(LosHoldsCandidate)
    /\ los_pc \in {"sweep", "done"} =>
          /\ los_gray = <<>>
          /\ LosHoldsCandidate \subseteq los_trace.marked
          /\ los_in.root # NULL => los_in.root \in los_trace.marked
    /\ los_pc = "sweep" =>
          \A o \in los_trace.marked :
             los_objects[o].field # NULL => los_objects[o].field \in los_trace.marked
    /\ los_pc = "done" =>
          /\ LosPinned = {}
          /\ los_object_list = SelectSeq(los_in.list, LAMBDA o : o \in los_trace.marked)
          /\ los_trace.freed = LosListed(los_in.list) \ los_trace.marked
          /\ \A o \in LosIds : los_objects[o].allocated <=> o \in los_trace.marked
          /\ \A o \in los_trace.marked : /\ los_trace.bounds.lowest <= LosData(o)
                                         /\ los_trace.bounds.highest >= LosData(o) + LosSize(o)

\* The list changes in the sweep only, and from the sweep on nothing is marked.
LosSweepStep ==
    /\ los_object_list' # los_object_list => los_pc = "sweep" /\ los_gray = <<>>
    /\ los_pc \in {"sweep", "done"} => LosPinned' \subseteq LosPinned

C36_LosPinnedAndSwept == []LosPinnedAndSwept /\ [][LosSweepStep]_vars

\* A major collection of three large objects: one was pinned from the pin queue,
\* one was marked through a reference only, one was freed although the pin queue
\* held the address behind one of the objects.
C36_Witness ==
    /\ los_pc = "done"
    /\ Len(los_in.list) = 3
    /\ Cardinality(los_trace.pinned_from_queue) = 1
    /\ los_in.root = NULL
    /\ Len(los_object_list) = 2
    /\ \E o \in LosIds : LosData(o) + LosSize(o) \in LosListed(los_in.pin_queue)


(***************************************************************************)
(* Claims about the heap boundaries, checked under SpecBounds.             *)
(***************************************************************************)

Covers(r) == heap_lowest <= r[1] /\ heap_highest >= r[2]

\* Every call that returned since the last reset is covered, and so are, when a
\* major collection has made its calls, the nursery and the surviving large
\* objects.
BoundsCover ==
    /\ \A r \in hb_calls : Covers(r)
    /\ (/\ hb_major.collector # NoThread
        /\ hb_major.todo = <<>>
        /\ hb_thread[hb_major.collector].pc = "idle")
          => /\ Covers(NurseryRange)
             /\ \A o \in hb_major.survivors : Covers(LosRange(o))

\* A step that is not the reset of a major collection lowers the lower bound or
\* leaves it, and raises the upper bound or leaves it.
BoundsMonotone ==
    (hb_major.collector # NoThread \/ hb_major'.collector = NoThread)
       => heap_lowest' <= heap_lowest /\ heap_highest' >= heap_highest

\* A caller that keeps taking steps returns, whatever the other callers do and
\* wherever they stop.
CallsReturn ==
    \A t \in Threads :
       WF_vars(mono_sgen_update_heap_boundaries(t))
          => (hb_thread[t].pc # "idle" ~> hb_thread[t].pc = "idle")

\* C37: under concurrent callers of mono_sgen_update_heap_boundaries, after any
\* interleaving of calls (low_i, high_i) since the last reset
\* lowest_heap_address <= every low_i and highest_heap_address >= every high_i,
\* the lower bound never increases and the upper never decreases between resets,
\* every call returns once the other callers stop, and after a major collection
\* the bounds cover the nursery and every surviving large object.
C37_HeapBoundaries == []BoundsCover /\ [][BoundsMonotone]_vars /\ CallsReturn

\* Two calls with different ranges returned after one of them had lost a
\* compare-and-swap to the other.
C37_Witness ==
    /\ Cardinality(hb_calls) >= 2
    /\ \E t \in Threads : /\ hb_thread[t].pc = "read_lowest"
                          /\ hb_thread[t].old # 0
                          /\ hb_thread[t].old # heap_lowest
    /\ hb_major.collector = NoThread

\* A major collection made its calls for the nursery and a surviving large
\* object.
C37_MajorWitness ==
    /\ hb_major.collector # NoThread
    /\ hb_major.todo = <<>>
    /\ hb_thread[hb_major.collector].pc = "idle"
    /\ hb_major.survivors = BoundedLos


(***************************************************************************)
(* Claims about mono_gc_clear_domain, checked under SpecDomain.            *)
(***************************************************************************)

\* The objects that belonged to the unloaded domain when the unload began.
OfUnloadedDomain ==
    {o \in DomainObjects : /\ cd_before.objects[o].state = "live"
                           /\ cd_before.objects[o].domain = "unloaded"}

\* The proxies whose memory still holds them.
LiveProxies ==
    {p \in DomainObjects : cd_objects[p].state = "live" /\ cd_objects[p].kind = "proxy"}

\* unwrapped_server is null or refers to an object outside the unloaded domain
\* whose memory still holds it.
Neutralized(p) ==
    \/ cd_objects[p].server = NULL
    \/ /\ cd_objects[cd_objects[p].server].state = "live"
       /\ cd_objects[p].server \notin OfUnloadedDomain

FirstPassDone == cd_pc \in {"free_los", "free_major", "unlock", "returned"}

ClearDomainState ==
    /\ FirstPassDone => \A p \in LiveProxies : Neutralized(p)
    /\ (\E o \in DomainObjects : cd_objects[o].state = "freed") => FirstPassDone
    /\ ~cd_read_freed
    /\ cd_gc_lock <=> cd_pc \notin {"idle", "called", "returned"}
    /\ cd_pc = "returned" =>
          /\ \A o \in OfUnloadedDomain :
                cd_objects[o].state = IF o \in Elements(NurseryObjects) THEN "zeroed"
                                      ELSE "freed"
          /\ \A o \in DomainObjects \ OfUnloadedDomain :
                cd_objects[o] = [cd_before.objects[o] EXCEPT !.server = cd_objects[o].server]
          /\ \A p \in LiveProxies :
                cd_objects[p].server \in {NULL, cd_before.objects[p].server}
          /\ Elements(cd_los_list) =
                {o \in Elements(LargeObjects) : /\ cd_before.objects[o].state = "live"
                                                /\ o \notin OfUnloadedDomain}

\* Whatever the unload changes it changes with the GC lock held.
ClearDomainStep ==
    (cd_objects' # cd_objects \/ cd_los_list' # cd_los_list
        \/ ephemeron_list' # ephemeron_list) => cd_gc_lock /\ cd_gc_lock'

\* C38: mono_gc_clear_domain (D) neutralizes every proxy's unwrapped_server that
\* refers to an object of D or to an already zeroed object in a first pass over
\* the nursery, the old generation and the large objects, before any old or
\* large object of D is freed in the second pass; when it has returned no
\* surviving proxy points into D, no large or old object of D remains, every
\* nursery object of D is zeroed, and the GC lock was held throughout.
C38_ClearDomainTwoPasses == []ClearDomainState /\ [][ClearDomainStep]_vars

\* An unload that zeroed a nursery object and freed the large object of the
\* domain, both of them the server of a surviving proxy, one of the proxies lying
\* in the nursery behind its server.
C38_Witness ==
    /\ cd_pc = "returned"
    /\ cd_objects[1].state = "zeroed"
    /\ cd_objects[4].state = "freed"
    /\ cd_before.objects[2].server = 1
    /\ cd_before.objects[3].server = 4
    /\ {2, 3} \subseteq LiveProxies

\* C39: when mono_gc_clear_domain (D) has returned, ephemeron_list holds no node
\* whose array belonged to D, whether the array lay in the nursery, in the old
\* generation or among the large objects.
C39_NoEphemeronOfUnloadedDomain ==
    cd_pc = "returned" => Elements(ephemeron_list) \cap OfUnloadedDomain = {}

\* The nodes of the nursery arrays of D are gone, and no other node is.
C39_NurseryEphemeronsRemoved ==
    cd_pc = "returned" =>
       ephemeron_list = SelectSeq(cd_before.ephemerons,
                           LAMBDA o : ~(o \in OfUnloadedDomain
                                          /\ o \in Elements(NurseryObjects)))


(***************************************************************************)
(* Claims about mono_gc_base_init, checked under SpecBaseInit.             *)
(***************************************************************************)

\* The callers that have returned from a call.
ReturnedFromInit == {t \in Threads : base_init[t].pc = "idle" /\ base_init[t].calls > 0}

BaseInitState ==
    /\ gc_initialized \in {0, -1, 1}
    /\ init_bodies <= 1
    /\ init_bodies = 1 => gc_initialized # 0
    /\ gc_initialized = 1 => init_bodies = 1
    /\ ReturnedFromInit # {} => gc_initialized = 1 /\ init_bodies = 1
    /\ Cardinality({t \in Threads : base_init[t].pc \in {"body", "options", "remset", "store"}})
          <= 1

BaseInitStep ==
    /\ gc_initialized' # gc_initialized =>
          \/ gc_initialized = 0 /\ gc_initialized' = -1
          \/ gc_initialized = -1 /\ gc_initialized' = 1
    /\ \A t \in Threads :
          (base_init[t].pc # "idle" /\ base_init'[t].pc = "idle") =>
              /\ gc_initialized' = 1
              /\ base_init[t].pc = "compare_exchange" => gc_initialized = 1
    /\ \A t \in Threads :
          (base_init[t].pc = "compare_exchange" /\ gc_initialized = -1) =>
              base_init'[t].pc \in {"compare_exchange", "usleep"}

\* C40: under concurrent calls of mono_gc_base_init gc_initialized moves only
\* 0 -> -1 -> 1, the initialization body is executed by exactly one caller, and
\* no caller returns before gc_initialized is 1: a caller that sees -1 waits and
\* tries again, a caller that sees 1 returns at once.
C40_InitializedOnce == []BaseInitState /\ [][BaseInitStep]_vars

\* One caller ran the body while another waited, and both have returned, one of
\* them from a second call that saw 1.
C40_Witness ==
    /\ ReturnedFromInit = Threads
    /\ \E t \in Threads : base_init[t].waited
    /\ \E t \in Threads : /\ base_init[t].result = 1
                          /\ ~base_init[t].waited
                          /\ base_init[t].calls = MaxCount
    /\ init_bodies = 1

====
